---- MODULE Spec2Model ----
(***************************************************************************)
(* Model of the mahindrabot backend: the in-memory OTP StateManager        *)
(* (core/state.py), the AgentToolKit tool methods (core/toolkit.py) and    *)
(* the FAQService semantic search (services/faq_service.py).               *)
(***************************************************************************)
EXTENDS Integers, Sequences, FiniteSets, TLC

VARIABLES
    state,        \* StateManager._state: insertion-ordered dict phone -> session
    now,          \* reading of datetime.now(), in minutes
    secret_otp,   \* os.getenv("INTERNAL_SECRET_OTP"); <<>> when unset or empty
    op,           \* the most recent call: its name,
    args,         \*   its arguments
    ret,          \*   and what it returned
    removed,      \* history: why each phone's latest session left the dict
    faqs,                 \* FAQService.faqs
    question_embeddings,  \* FAQService.question_embeddings, one row per record
    answer_embeddings,    \* FAQService.answer_embeddings, one row per record
    cache,                \* the file .temp/faq_embeddings.json
    phase,        \* Agent Loop: the state of the turn
    iterations,   \*   tool-executing iterations completed in the turn
    messages,     \*   the conversation history
    steps,        \*   the AgentSteps of the turn
    emitted,      \*   the AgentResponse snapshots yielded so far
    invoked,      \*   how often each request id was handed to the registry
    cars,         \* CarService.cars: insertion-ordered dict car_id -> CarDetail
    threads       \* the StateManager calls in progress, one per thread

otpVars == <<state, now, secret_otp, removed>>
faqVars == <<faqs, question_embeddings, answer_embeddings, cache>>
agentVars == <<phase, iterations, messages, steps, emitted, invoked>>
vars == <<state, now, secret_otp, op, args, ret, removed,
          faqs, question_embeddings, answer_embeddings, cache,
          phase, iterations, messages, steps, emitted, invoked, cars, threads>>

----------------------------------------------------------------------------
(* Bounds of the model *)

MaxTime == 11
MaxFaqs == 2
MaxLimit == 2
MaxIterations == 2
MaxCalls == 2
MaxCars == 3
MaxIds == 2

(* Program constants *)

ExpiryMinutes == 10
OtpLow == 100000
OtpHigh == 999999
FuzzyThreshold == 70
SuggestionLimit == 5
SuggestionScore == 60

----------------------------------------------------------------------------
(* Values *)

None == "None"
Phones == {"9876543210", "9123456780"}
Names == {"John Doe", "Jane Roe"}

RECURSIVE Digits(_)
Digits(n) == IF n < 10 THEN <<n>> ELSE Append(Digits(n \div 10), n % 10)

\* str(n) for a non-negative int: its decimal digits, most significant first
str(n) == Digits(n)

\* the draws of random.randint(100000, 999999) the model follows
RandInts == {OtpLow, OtpHigh}

\* otp strings a caller may present
Codes == {str(n) : n \in RandInts} \cup {<<0, 0, 0, 0, 0, 0>>}

\* values of the INTERNAL_SECRET_OTP environment variable: unset, or a value
\* that book_ride can also generate
Secrets == {<<>>, str(OtpLow)}

\* expiry_minutes arguments of cleanup_expired
Windows == {0, ExpiryMinutes}

\* minutes by which the clock has advanced between two calls: the length of
\* the expiry window exactly, or one minute more
Advances == {ExpiryMinutes, ExpiryMinutes + 1}

----------------------------------------------------------------------------
(* Python dict with insertion order, as a sequence of sessions keyed by     *)
(* their phone field.                                                       *)

Keys(d) == {d[i].phone : i \in 1..Len(d)}

IndexOf(d, phone) == CHOOSE i \in 1..Len(d) : d[i].phone = phone

Get(d, phone) == d[IndexOf(d, phone)]

\* variant: every assignment appends an entry
DictSet_append(d, phone, rec) == Append(d, rec)

\* d[phone] = rec : an existing key keeps its position, a new key goes last
DictSet(d, phone, rec) ==
    IF phone \in Keys(d)
    THEN [d EXCEPT ![IndexOf(d, phone)] = rec]
    ELSE Append(d, rec)

\* del d[phone]
DictDel(d, phone) == SelectSeq(d, LAMBDA r : r.phone # phone)

Session(phone, otp, name, t) ==
    [phone |-> phone, otp |-> otp, name |-> name, timestamp |-> t]

\* now - stored["timestamp"] > timedelta(minutes=m)
Expired(rec, m, t) == t - rec.timestamp > m

----------------------------------------------------------------------------
(* StateManager *)

store_otp(d, phone, otp, name, t) ==
    DictSet(d, phone, Session(phone, otp, name, t))

\* variant: a successful verification leaves the session in place
verify_otp_keeps(d, phone, otp, t) ==
    IF phone \notin Keys(d)
    THEN [state |-> d, ret |-> <<FALSE, None>>]
    ELSE LET stored == Get(d, phone) IN
         IF Expired(stored, ExpiryMinutes, t)
         THEN [state |-> DictDel(d, phone), ret |-> <<FALSE, None>>]
         ELSE IF stored.otp = otp
              THEN [state |-> d, ret |-> <<TRUE, stored.name>>]
              ELSE [state |-> d, ret |-> <<FALSE, None>>]

\* variant: no expiry check
verify_otp_noexpiry(d, phone, otp, t) ==
    IF phone \notin Keys(d)
    THEN [state |-> d, ret |-> <<FALSE, None>>]
    ELSE LET stored == Get(d, phone) IN
         IF stored.otp = otp
         THEN [state |-> DictDel(d, phone), ret |-> <<TRUE, stored.name>>]
         ELSE [state |-> d, ret |-> <<FALSE, None>>]

\* variant: any attempt on a live session consumes it
verify_otp_delwrong(d, phone, otp, t) ==
    IF phone \notin Keys(d)
    THEN [state |-> d, ret |-> <<FALSE, None>>]
    ELSE LET stored == Get(d, phone) IN
         IF Expired(stored, ExpiryMinutes, t)
         THEN [state |-> DictDel(d, phone), ret |-> <<FALSE, None>>]
         ELSE IF stored.otp = otp
              THEN [state |-> DictDel(d, phone), ret |-> <<TRUE, stored.name>>]
              ELSE [state |-> DictDel(d, phone), ret |-> <<FALSE, None>>]

verify_otp(d, phone, otp, t) ==
    IF phone \notin Keys(d)
    THEN [state |-> d, ret |-> <<FALSE, None>>]
    ELSE LET stored == Get(d, phone) IN
         IF Expired(stored, ExpiryMinutes, t)
         THEN [state |-> DictDel(d, phone), ret |-> <<FALSE, None>>]
         ELSE IF stored.otp = otp
              THEN [state |-> DictDel(d, phone), ret |-> <<TRUE, stored.name>>]
              ELSE [state |-> d, ret |-> <<FALSE, None>>]

\* variant: the argument is ignored and the default window used
cleanup_expired_default(d, expiry_minutes, t) ==
    SelectSeq(d, LAMBDA r : ~Expired(r, ExpiryMinutes, t))

cleanup_expired(d, expiry_minutes, t) ==
    LET expired == {d[i].phone : i \in {j \in 1..Len(d) : Expired(d[j], expiry_minutes, t)}}
    IN  SelectSeq(d, LAMBDA r : r.phone \notin expired)

----------------------------------------------------------------------------
(* Calls of the StateManager running in several threads, one statement at  *)
(* a time.  pc is the line of state.py the thread executes next.           *)

Threads == {"T1", "T2"}

\* a call: its method and arguments, the local variable stored, the session
\* its phone had when the call began, and the outcome once pc is "done"
Call(pc, method, phone, otp, name, stored, began, outcome) ==
    [pc |-> pc, method |-> method, phone |-> phone, otp |-> otp, name |-> name,
     stored |-> stored, began |-> began, outcome |-> outcome]

NoCall == Call("idle", "none", "", <<>>, "", <<>>, <<>>, <<>>)

NoCalls == [t \in Threads |-> NoCall]

----------------------------------------------------------------------------
(* Outcomes of a block of Python code: it returns a value or raises.       *)

Return(v) == [kind |-> "return", value |-> v]
Raise(e) == [kind |-> "raise", value |-> e]

\* subclasses of Exception the collaborators raise; "Exception" stands for
\* any other subclass
ExceptionClasses ==
    {"CarNotFoundError", "InvalidFilterError", "BikeNotFoundError",
     "InvalidBikeFilterError", "ValueError", "RequestException", "Exception"}

\* try: <outcome>  except <caught>: return handler
TryExcept(outcome, caught, handler) ==
    IF outcome.kind = "raise" /\ outcome.value \in caught THEN handler ELSE outcome

\* a formatted message: its template and the values interpolated into it
Text(msg, a, b) == <<msg, a, b>>

----------------------------------------------------------------------------
(* services/slack.py *)

SlackOutcomes == {"ok", "ValueError", "RequestException"}

\* webhook: "ok" (posted), "ValueError" (SLACK_WEBHOOK_URL unset),
\* "RequestException" (post failed or raise_for_status raised)
send_message(webhook) == IF webhook = "ok" THEN Return(None) ELSE Raise(webhook)

----------------------------------------------------------------------------
(* AgentToolKit: booking tools *)

InvalidOtpText == Text("Invalid or expired OTP", None, None)

\* variant: the notification is sent outside any inner try
book_ride_nocatch(d, name, phone_number, n, webhook, t) ==
    LET otp == str(n)
        d1 == store_otp(d, phone_number, otp, name, t)
        notified == send_message(webhook)
        body == IF notified.kind = "raise"
                THEN notified
                ELSE Return(Text("Thank you, booking initiated", name, phone_number))
    IN  [state |-> d1,
         ret |-> TryExcept(body, ExceptionClasses,
                           Return(Text("Error booking ride", body.value, None)))]

\* variant: the confirmation text quotes the code
book_ride_reveals(d, name, phone_number, n, webhook, t) ==
    LET otp == str(n)
        d1 == store_otp(d, phone_number, otp, name, t)
        notified == TryExcept(send_message(webhook), ExceptionClasses, Return(None))
        body == IF notified.kind = "raise"
                THEN notified
                ELSE Return(Text("Thank you, booking initiated", name, otp))
    IN  [state |-> d1,
         ret |-> TryExcept(body, ExceptionClasses,
                           Return(Text("Error booking ride", body.value, None)))]

\* variant: the code is drawn from 0 upwards
book_ride_from_zero(d, name, phone_number, n, webhook, t) ==
    LET otp == str(n - OtpLow)
        d1 == store_otp(d, phone_number, otp, name, t)
        notified == TryExcept(send_message(webhook), ExceptionClasses, Return(None))
        body == IF notified.kind = "raise"
                THEN notified
                ELSE Return(Text("Thank you, booking initiated", name, phone_number))
    IN  [state |-> d1,
         ret |-> TryExcept(body, ExceptionClasses,
                           Return(Text("Error booking ride", body.value, None)))]

book_ride(d, name, phone_number, n, webhook, t) ==
    LET otp == str(n)
        d1 == store_otp(d, phone_number, otp, name, t)
        notified == TryExcept(send_message(webhook), ExceptionClasses, Return(None))
        body == IF notified.kind = "raise"
                THEN notified
                ELSE Return(Text("Thank you, booking initiated", name, phone_number))
    IN  [state |-> d1,
         ret |-> TryExcept(body, ExceptionClasses,
                           Return(Text("Error booking ride", body.value, None)))]

\* for phone, data in _state.items(): the first entry whose otp matches
FirstMatch(d, otp) ==
    LET matches == {i \in 1..Len(d) : d[i].otp = otp}
    IN  IF matches = {} THEN 0 ELSE CHOOSE i \in matches : \A j \in matches : i <= j

\* variant: a matching entry confirms without asking verify_otp
confirm_ride_noverify(d, otp, secret, t) ==
    IF secret # <<>> /\ otp = secret
    THEN [state |-> d,
          ret |-> Return(Text("Booking confirmed with internal OTP", None, None))]
    ELSE LET i == FirstMatch(d, otp) IN
         IF i = 0
         THEN [state |-> d, ret |-> Return(InvalidOtpText)]
         ELSE [state |-> DictDel(d, d[i].phone),
               ret |-> Return(Text("Booking confirmed", d[i].name, d[i].phone))]

\* variant: the sessions are searched before the internal code is looked at
confirm_ride_sessions_first(d, otp, secret, t) ==
    LET i == FirstMatch(d, otp) IN
    IF i = 0
    THEN IF secret # <<>> /\ otp = secret
         THEN [state |-> d,
               ret |-> Return(Text("Booking confirmed with internal OTP", None, None))]
         ELSE [state |-> d, ret |-> Return(InvalidOtpText)]
    ELSE LET phone == d[i].phone
             v == verify_otp(d, phone, otp, t)
         IN  IF v.ret[1]
             THEN [state |-> v.state,
                   ret |-> Return(Text("Booking confirmed", v.ret[2], phone))]
             ELSE [state |-> v.state, ret |-> Return(InvalidOtpText)]

confirm_ride(d, otp, secret, t) ==
    IF secret # <<>> /\ otp = secret
    THEN [state |-> d,
          ret |-> Return(Text("Booking confirmed with internal OTP", None, None))]
    ELSE LET i == FirstMatch(d, otp) IN
         IF i = 0
         THEN [state |-> d, ret |-> Return(InvalidOtpText)]
         ELSE LET phone == d[i].phone
                  v == verify_otp(d, phone, otp, t)
              IN  IF v.ret[1]
                  THEN [state |-> v.state,
                        ret |-> Return(Text("Booking confirmed", v.ret[2], phone))]
                  ELSE [state |-> v.state, ret |-> Return(InvalidOtpText)]

----------------------------------------------------------------------------
(* AgentToolKit: catalog, FAQ and EV-charger tools.  A tool body calls one  *)
(* service method (svc: what the call did) and formats its result (ser:     *)
(* what the serializer did); both are collaborators of the toolkit.         *)

CarOutcomes == {"ok", "empty", "CarNotFoundError", "InvalidFilterError", "Exception"}
BikeOutcomes == {"ok", "empty", "BikeNotFoundError", "InvalidBikeFilterError", "Exception"}
SerializerOutcomes == {"ok", "Exception"}

\* result = service(...); return "\n\n".join(serialize(x) for x in result)
ListBody(svc, ser) ==
    IF svc \in ExceptionClasses THEN Raise(svc)
    ELSE IF svc = "empty" THEN Return(Text("", None, None))
    ELSE IF ser \in ExceptionClasses THEN Raise(ser)
    ELSE Return(Text("serialized", None, None))

\* result = service(...); if not result: return <none found>; return join(...)
SearchBody(svc, ser, none_found) ==
    IF svc \in ExceptionClasses THEN Raise(svc)
    ELSE IF svc = "empty" THEN Return(Text(none_found, None, None))
    ELSE IF ser \in ExceptionClasses THEN Raise(ser)
    ELSE Return(Text("serialized", None, None))

\* except <specific> as e: return f"<specific_msg>: {e}"
\* except Exception as e:  return f"<generic_msg>: {e}"
Handlers(body, specific, specific_msg, generic_msg) ==
    TryExcept(TryExcept(body, {specific}, Return(Text(specific_msg, body.value, None))),
              ExceptionClasses, Return(Text(generic_msg, body.value, None)))

list_cars(svc, ser) ==
    Handlers(ListBody(svc, ser), "InvalidFilterError", "Filter error", "Error listing cars")

search_car(svc, ser) ==
    Handlers(SearchBody(svc, ser, "No cars found matching your search criteria."),
             "InvalidFilterError", "Filter error", "Error searching cars")

get_car_details(svc, ser) ==
    Handlers(ListBody(svc, ser), "CarNotFoundError", "Car not found",
             "Error getting car details")

get_extended_car_details(svc, ser) ==
    Handlers(ListBody(svc, ser), "CarNotFoundError", "Car not found",
             "Error getting extended car details")

get_car_comparison(svc, ser) ==
    Handlers(ListBody(svc, ser), "CarNotFoundError", "Car not found",
             "Error comparing cars")

list_bikes(svc, ser) ==
    Handlers(ListBody(svc, ser), "InvalidBikeFilterError", "Filter error",
             "Error listing bikes")

search_bike(svc, ser) ==
    Handlers(SearchBody(svc, ser, "No bikes found matching your search criteria."),
             "InvalidBikeFilterError", "Filter error", "Error searching bikes")

get_bike_details(svc, ser) ==
    Handlers(ListBody(svc, ser), "BikeNotFoundError", "Bike not found",
             "Error getting bike details")

get_extended_bike_details(svc, ser) ==
    Handlers(ListBody(svc, ser), "BikeNotFoundError", "Bike not found",
             "Error getting extended bike details")

\* variant: only the specific handler
get_bike_comparison_specific(svc, ser) ==
    TryExcept(ListBody(svc, ser), {"BikeNotFoundError"},
              Return(Text("Bike not found", svc, None)))

get_bike_comparison(svc, ser) ==
    Handlers(ListBody(svc, ser), "BikeNotFoundError", "Bike not found",
             "Error comparing bikes")

\* faq_service.search: it raised, or returned no result, or results whose
\* best score is below ("low") or not below ("high") 0.5
FaqOutcomes == {"high", "low", "empty", "Exception"}

search_faq(svc, ser) ==
    LET body == IF svc \in ExceptionClasses THEN Raise(svc)
                ELSE IF svc \in {"empty", "low"}
                     THEN Return(Text("I couldn't find any relevant information", None, None))
                ELSE IF ser \in ExceptionClasses THEN Raise(ser)
                ELSE Return(Text("json", None, None))
    IN  TryExcept(body, ExceptionClasses, Return(Text("Error searching FAQs", body.value, None)))

\* ev_charger_service.find_nearest_ev_charger returned (user_location, results)
\* or raised: "invalid" = (None, []), "none_in_radius" = (location, []),
\* "found" = (location, results), "no_location" = (None, results)
EvOutcomes == {"invalid", "none_in_radius", "found", "no_location", "Exception"}

find_nearest_ev_charger(svc, ser) ==
    LET body == IF svc \in ExceptionClasses THEN Raise(svc)
                ELSE IF svc = "invalid" THEN Return(Text("Invalid pincode", None, None))
                ELSE IF svc = "no_location" THEN Raise("Exception")
                ELSE IF svc = "none_in_radius"
                     THEN Return(Text("NO CHARGING STATIONS FOUND", None, None))
                ELSE IF ser \in ExceptionClasses THEN Raise(ser)
                ELSE Return(Text("SEARCH LOCATION", None, None))
    IN  TryExcept(body, ExceptionClasses, Return(Text("Error finding EV charger", body.value, None)))

ToolNames ==
    {"list_cars", "search_car", "get_car_details", "get_extended_car_details",
     "get_car_comparison", "search_faq", "find_nearest_ev_charger", "list_bikes",
     "search_bike", "get_bike_details", "get_extended_bike_details",
     "get_bike_comparison"}

----------------------------------------------------------------------------
(* services/faq_service.py *)

\* texts of questions, answers and queries, and the vector the embedding
\* provider returns for each; "t00" is a text whose vector has zero norm, the
\* degenerate case of the similarity computation
Texts == {"t00", "t10", "t11", "t01"}

Embedding ==
    "t00" :> <<0, 0>> @@ "t10" :> <<1, 0>> @@ "t11" :> <<1, 1>> @@ "t01" :> <<0, 1>>

\* one row per text, in the order of the texts
get_embeddings(texts) == [i \in 1..Len(texts) |-> Embedding[texts[i]]]

Dot(a, b) == a[1] * b[1] + a[2] * b[2]

\* A similarity is kept exactly, as [num, den] standing for num / sqrt(den):
\* the dot product of a / |a| and b / |b| with den = |a|^2 * |b|^2.  A zero
\* norm makes the normalised vector 0/0 = nan, and so the similarity nan.
cosine_similarity(a, b) == [num |-> Dot(a, b), den |-> Dot(a, a) * Dot(b, b)]

cosine_similarity_batch(query_embedding, embeddings) ==
    [i \in 1..Len(embeddings) |-> cosine_similarity(embeddings[i], query_embedding)]

IsNaN(x) == x.den = 0

SignedSquare(n) == IF n < 0 THEN -(n * n) ELSE n * n

\* float comparisons; any comparison with nan is false
Gt(x, y) ==
    /\ ~IsNaN(x)
    /\ ~IsNaN(y)
    /\ SignedSquare(x.num) * y.den > SignedSquare(y.num) * x.den

Lt(x, y) == Gt(y, x)

Eq(x, y) ==
    /\ ~IsNaN(x)
    /\ ~IsNaN(y)
    /\ SignedSquare(x.num) * y.den = SignedSquare(y.num) * x.den

Ge(x, y) == Gt(x, y) \/ Eq(x, y)

\* the records of the FAQ file get the ids "0", "1", ... in load order
LoadFaqs(faq_data) ==
    [i \in 1..Len(faq_data) |->
        [id |-> str(i - 1), question |-> faq_data[i].question, answer |-> faq_data[i].answer]]

\* The cache file: absent, not parseable as JSON ("garbage"), or a JSON object
\* with the keys it has and the lists stored under them.
CacheKeys == {"questions", "answers", "metadata"}

CacheFile(kind, keys, questions, answers, metadata) ==
    [kind |-> kind, keys |-> keys, questions |-> questions,
     answers |-> answers, metadata |-> metadata]

NoCache == CacheFile("absent", {}, <<>>, <<>>, <<>>)

GarbageCache == CacheFile("garbage", {}, <<>>, <<>>, <<>>)

_cache_exists(c) == c.kind # "absent"

\* json.load or a missing key raising is caught and answers False
_validate_cache(c, fs) ==
    IF c.kind # "json" THEN FALSE
    ELSE IF ~(CacheKeys \subseteq c.keys) THEN FALSE
    ELSE IF Len(c.questions) # Len(c.answers) \/ Len(c.questions) # Len(c.metadata)
         THEN FALSE
    ELSE IF Len(c.metadata) # Len(fs) THEN FALSE
    ELSE TRUE

\* the two matrices as stored in the file
_load_from_cache(c) ==
    [question_embeddings |-> c.questions, answer_embeddings |-> c.answers]

\* both matrices computed from the records, and the file written from them
_generate_and_cache_embeddings(fs) ==
    LET q == get_embeddings([i \in 1..Len(fs) |-> fs[i].question])
        a == get_embeddings([i \in 1..Len(fs) |-> fs[i].answer])
    IN  [question_embeddings |-> q, answer_embeddings |-> a,
         cache |-> CacheFile("json", CacheKeys, q, a, fs)]

Reverse(s) == [i \in 1..Len(s) |-> s[Len(s) + 1 - i]]

\* list.sort of CPython (3.11) on a list shorter than 64: the first run is
\* found and, when strictly descending, reversed; the rest is inserted by
\* binary insertion; reverse=True reverses the list before and after.
\* RunEnd: the last index of the run that starts the list
RECURSIVE RunEnd(_, _, _)
RunEnd(keys, k, descending) ==
    IF k > Len(keys) THEN k - 1
    ELSE IF Lt(keys[k], keys[k - 1]) = descending THEN RunEnd(keys, k + 1, descending)
    ELSE k - 1

RECURSIVE BinarySearch(_, _, _, _)
BinarySearch(s, pivot, l, r) ==
    IF l >= r THEN l
    ELSE LET p == l + ((r - l) \div 2) IN
         IF Lt(pivot.score, s[p].score)
         THEN BinarySearch(s, pivot, l, p)
         ELSE BinarySearch(s, pivot, p + 1, r)

\* binary insertion of s[start], s[start+1], ... into the sorted prefix
RECURSIVE BinarySort(_, _)
BinarySort(s, start) ==
    IF start > Len(s) THEN s
    ELSE LET pivot == s[start]
             l == BinarySearch(s, pivot, 1, start)
             moved == [i \in 1..Len(s) |->
                         IF i < l \/ i > start THEN s[i]
                         ELSE IF i = l THEN pivot
                         ELSE s[i - 1]]
         IN  BinarySort(moved, start + 1)

\* ascending stable sort by score using only "<"
SortAscending(s) ==
    IF Len(s) < 2 THEN s
    ELSE LET keys == [i \in 1..Len(s) |-> s[i].score]
             descending == Lt(keys[2], keys[1])
             n == RunEnd(keys, 3, descending)
             run == IF descending
                    THEN [i \in 1..Len(s) |-> IF i <= n THEN s[n + 1 - i] ELSE s[i]]
                    ELSE s
         IN  BinarySort(run, n + 1)

\* results.sort(key=lambda x: x.score, reverse=True)
SortByScoreDescending(results) == Reverse(SortAscending(Reverse(results)))

\* results[:limit]
Slice(results, limit) ==
    LET n == Len(results)
        stop == IF limit >= 0
                THEN (IF limit < n THEN limit ELSE n)
                ELSE (IF n + limit > 0 THEN n + limit ELSE 0)
    IN  SubSeq(results, 1, stop)

\* the score kept for record i: the question score, replaced by the answer
\* score when that one is greater
MergedScore(question_similarities, answer_similarities, i) ==
    IF Gt(answer_similarities[i], question_similarities[i])
    THEN answer_similarities[i]
    ELSE question_similarities[i]

search(fs, q_emb, a_emb, query, limit) ==
    LET query_embedding == get_embeddings(<<query>>)[1]
        question_similarities == cosine_similarity_batch(query_embedding, q_emb)
        answer_similarities == cosine_similarity_batch(query_embedding, a_emb)
        results == [i \in 1..Len(fs) |->
                      [id |-> fs[i].id, question |-> fs[i].question,
                       answer |-> fs[i].answer,
                       score |-> MergedScore(question_similarities, answer_similarities, i)]]
    IN  Slice(SortByScoreDescending(results), limit)

----------------------------------------------------------------------------
(* services/car_service.py *)

\* an optional value: <<>> is None, <<v>> is the value v
Some(v) == <<v>>

\* str.lower() on the strings that occur
Lower ==
    "Mahindra" :> "mahindra" @@ "mahindra" :> "mahindra" @@ "Tata" :> "tata" @@
    "Maruti Suzuki" :> "maruti suzuki" @@ "Fiat" :> "fiat" @@ "Mahindr" :> "mahindr" @@
    "Coupe" :> "coupe" @@ "Hydrogen" :> "hydrogen" @@ "CVT" :> "cvt" @@
    "SUV" :> "suv" @@ "suv" :> "suv" @@
    "Petrol" :> "petrol" @@ "PETROL" :> "petrol" @@ "Diesel" :> "diesel" @@
    "Electric" :> "electric" @@
    "Manual" :> "manual" @@ "manual" :> "manual" @@ "Automatic" :> "automatic" @@
    "mahindra_xuv_3xo" :> "mahindra_xuv_3xo" @@ "MARUTI_BREZZA" :> "maruti_brezza" @@
    "tata_punch_ev" :> "tata_punch_ev" @@ "nonexistent" :> "nonexistent"

\* a loaded CarDetail: brand, body_type and seating_capacity may be missing,
\* fuel_types joins fuel.type and engine.fuel_type, displacement holds the
\* engine's displacement values, efficiency is the dict fuel.efficiency
CarDetail(id, name, price, brand, body_type, fuel_types, transmission, seating_capacity, displacement, efficiency, rating) ==
    [id |-> id, name |-> name, price |-> price, brand |-> brand,
     body_type |-> body_type, fuel_types |-> fuel_types,
     transmission |-> transmission, seating_capacity |-> seating_capacity,
     displacement |-> displacement, efficiency |-> efficiency, rating |-> rating]

CarPool ==
    << CarDetail("mahindra_xuv_3xo", "mahindra xuv 3xo", 8, Some("Mahindra"), Some("SUV"),
                 {"Petrol", "Diesel"}, {"Manual", "Automatic"}, Some(5),
                 {1197, 1497}, [min |-> 17, max |-> 21], Some(8)),
       CarDetail("maruti_brezza", "maruti suzuki brezza", 8, Some("Maruti Suzuki"), Some("SUV"),
                 {"Petrol"}, {"Manual"}, Some(5), {1462}, [value |-> 20], <<>>),
       CarDetail("mahindra_bolero", "mahindra bolero", 9, Some("Mahindra"), <<>>,
                 {"Diesel"}, {}, <<>>, {1493}, [min |-> 16], <<>>),
       CarDetail("tata_punch_ev", "tata punch ev", 10, Some("Tata"), Some("SUV"),
                 {"Electric"}, {"Automatic"}, Some(5), {}, <<>>, Some(9)) >>

\* the folders the service may be loaded from: up to MaxCars files of the
\* pool, read in either order
Catalogs ==
    LET picked(ids) == SelectSeq(CarPool, LAMBDA c : c.id \in ids)
        folders == {ids \in SUBSET {CarPool[i].id : i \in 1..Len(CarPool)} :
                       ids # {} /\ Cardinality(ids) <= MaxCars}
    IN  {picked(ids) : ids \in folders} \cup {Reverse(picked(ids)) : ids \in folders}

\* the values tracked while loading
available_brands(cs) == {cs[i].brand[1] : i \in {j \in 1..Len(cs) : cs[j].brand # <<>>}}

available_body_types(cs) ==
    {cs[i].body_type[1] : i \in {j \in 1..Len(cs) : cs[j].body_type # <<>>}}

available_fuel_types(cs) == UNION {cs[i].fuel_types : i \in 1..Len(cs)}

available_transmissions(cs) == UNION {cs[i].transmission : i \in 1..Len(cs)}

\* list.sort, which is stable: elements in the order given by before (the
\* pairs <<a, b>> whose key for a is less than that for b), equal ones in the
\* order they had
StableSort(s, before) ==
    LET n == Len(s)
        rank(i) == 1 + Cardinality({j \in 1..n :
                        <<s[j], s[i]>> \in before
                        \/ (<<s[i], s[j]>> \notin before /\ j < i)})
    IN  [r \in 1..n |-> s[CHOOSE i \in 1..n : rank(i) = r]]

\* the pairs of elements of a list
Pairs(s) == {<<s[i], s[j]>> : i, j \in 1..Len(s)}

\* the values of the loaded cars in the order of sorted()
Alphabetical ==
    <<"Automatic", "Diesel", "Electric", "Mahindra", "Manual", "Maruti Suzuki",
      "Petrol", "SUV", "Tata">>

sorted(S) == SelectSeq(Alphabetical, LAMBDA v : v \in S)

\* the score process.extract gives a choice for a query, as a table
WRatio(query, choice) ==
    IF query = "Mahindr" /\ choice = "Mahindra" THEN 93 ELSE 50

InvalidFilterError(filter_name, invalid_value, suggestions) ==
    [class |-> "InvalidFilterError", filter_name |-> filter_name,
     invalid_value |-> invalid_value, suggestions |-> suggestions]

ValueError == [class |-> "ValueError"]

\* variant: the value is compared as it was given, letter case included
_validate_filter_value_exact(filter_name, value, available_values) ==
    IF value # <<>> /\ value[1] \notin available_values
    THEN LET choices == sorted(available_values)
             score(c) == WRatio(value[1], c)
             extracted == Slice(StableSort(choices,
                                    {p \in Pairs(choices) : score(p[1]) > score(p[2])}),
                                SuggestionLimit)
             good == SelectSeq(extracted, LAMBDA c : score(c) > SuggestionScore)
             suggestion_list == IF good = <<>> THEN Slice(choices, SuggestionLimit) ELSE good
         IN  Raise(InvalidFilterError(filter_name, value[1], suggestion_list))
    ELSE Return(None)

\* value is an optional filter; a given value must be one of the available
\* ones, letter case aside, or the error carries the best-scoring available
\* values, else the first ones in sorted order
_validate_filter_value(filter_name, value, available_values) ==
    IF value # <<>> /\ Lower[value[1]] \notin {Lower[v] : v \in available_values}
    THEN LET choices == sorted(available_values)
             score(c) == WRatio(value[1], c)
             extracted == Slice(StableSort(choices,
                                    {p \in Pairs(choices) : score(p[1]) > score(p[2])}),
                                SuggestionLimit)
             good == SelectSeq(extracted, LAMBDA c : score(c) > SuggestionScore)
             suggestion_list == IF good = <<>> THEN Slice(choices, SuggestionLimit) ELSE good
         IN  Raise(InvalidFilterError(filter_name, value[1], suggestion_list))
    ELSE Return(None)

Max(S) == CHOOSE x \in S : \A y \in S : y <= x

Min(S) == CHOOSE x \in S : \A y \in S : x <= y

\* the mileage of a car: the single value, else the top of the range, else
\* its bottom
Mileage(car) ==
    LET eff == car.efficiency IN
    IF "value" \in DOMAIN eff THEN Some(eff.value)
    ELSE IF "max" \in DOMAIN eff THEN Some(eff.max)
    ELSE IF "min" \in DOMAIN eff THEN Some(eff.min)
    ELSE <<>>

\* the filter arguments of list_cars and search, each optional
FilterNames ==
    {"min_price", "max_price", "brand", "body_type", "fuel_type",
     "mileage_more_than", "mileage_less_than", "seating_capacity", "transmission",
     "engine_displacement_more_than", "engine_displacement_less_than"}

NoFilters == [n \in FilterNames |-> <<>>]

\* the filters with the lower mileage bound inclusive
_matches_filters_inclusive(car, f) ==
    IF f.min_price # <<>> /\ car.price < f.min_price[1] THEN FALSE
    ELSE IF f.max_price # <<>> /\ car.price > f.max_price[1] THEN FALSE
    ELSE IF f.brand # <<>>
            /\ (car.brand = <<>> \/ Lower[car.brand[1]] # Lower[f.brand[1]]) THEN FALSE
    ELSE IF f.body_type # <<>>
            /\ (car.body_type = <<>> \/ Lower[car.body_type[1]] # Lower[f.body_type[1]])
         THEN FALSE
    ELSE IF f.fuel_type # <<>>
            /\ Lower[f.fuel_type[1]] \notin {Lower[t] : t \in car.fuel_types} THEN FALSE
    ELSE IF f.transmission # <<>>
            /\ (car.transmission = {}
                \/ Lower[f.transmission[1]] \notin {Lower[t] : t \in car.transmission})
         THEN FALSE
    ELSE IF f.seating_capacity # <<>>
            /\ (car.seating_capacity = <<>> \/ car.seating_capacity # f.seating_capacity)
         THEN FALSE
    ELSE IF (f.engine_displacement_more_than # <<>> \/ f.engine_displacement_less_than # <<>>)
            /\ car.displacement = {} THEN FALSE
    ELSE IF f.engine_displacement_more_than # <<>>
            /\ Max(car.displacement) <= f.engine_displacement_more_than[1] THEN FALSE
    ELSE IF f.engine_displacement_less_than # <<>>
            /\ Min(car.displacement) >= f.engine_displacement_less_than[1] THEN FALSE
    ELSE IF (f.mileage_more_than # <<>> \/ f.mileage_less_than # <<>>)
            /\ Mileage(car) = <<>> THEN FALSE
    ELSE IF f.mileage_more_than # <<>> /\ Mileage(car)[1] < f.mileage_more_than[1] THEN FALSE
    ELSE IF f.mileage_less_than # <<>> /\ Mileage(car)[1] >= f.mileage_less_than[1] THEN FALSE
    ELSE TRUE

\* AND of the supplied filters, each check returning False at its first miss
_matches_filters(car, f) ==
    IF f.min_price # <<>> /\ car.price < f.min_price[1] THEN FALSE
    ELSE IF f.max_price # <<>> /\ car.price > f.max_price[1] THEN FALSE
    ELSE IF f.brand # <<>>
            /\ (car.brand = <<>> \/ Lower[car.brand[1]] # Lower[f.brand[1]]) THEN FALSE
    ELSE IF f.body_type # <<>>
            /\ (car.body_type = <<>> \/ Lower[car.body_type[1]] # Lower[f.body_type[1]])
         THEN FALSE
    ELSE IF f.fuel_type # <<>>
            /\ Lower[f.fuel_type[1]] \notin {Lower[t] : t \in car.fuel_types} THEN FALSE
    ELSE IF f.transmission # <<>>
            /\ (car.transmission = {}
                \/ Lower[f.transmission[1]] \notin {Lower[t] : t \in car.transmission})
         THEN FALSE
    ELSE IF f.seating_capacity # <<>>
            /\ (car.seating_capacity = <<>> \/ car.seating_capacity # f.seating_capacity)
         THEN FALSE
    ELSE IF (f.engine_displacement_more_than # <<>> \/ f.engine_displacement_less_than # <<>>)
            /\ car.displacement = {} THEN FALSE
    ELSE IF f.engine_displacement_more_than # <<>>
            /\ Max(car.displacement) <= f.engine_displacement_more_than[1] THEN FALSE
    ELSE IF f.engine_displacement_less_than # <<>>
            /\ Min(car.displacement) >= f.engine_displacement_less_than[1] THEN FALSE
    ELSE IF (f.mileage_more_than # <<>> \/ f.mileage_less_than # <<>>)
            /\ Mileage(car) = <<>> THEN FALSE
    ELSE IF f.mileage_more_than # <<>> /\ Mileage(car)[1] <= f.mileage_more_than[1] THEN FALSE
    ELSE IF f.mileage_less_than # <<>> /\ Mileage(car)[1] >= f.mileage_less_than[1] THEN FALSE
    ELSE TRUE

ValidSortFields == {"price", "mileage", "seating_capacity", "engine_displacement"}

\* (has_value, value)
_get_sort_value(car, sort_by) ==
    CASE sort_by = "price" -> <<TRUE, car.price>>
      [] sort_by = "mileage" ->
            IF Mileage(car) = <<>> THEN <<FALSE, 0>> ELSE <<TRUE, Mileage(car)[1]>>
      [] sort_by = "seating_capacity" ->
            IF car.seating_capacity = <<>> THEN <<FALSE, 0>>
            ELSE <<TRUE, car.seating_capacity[1]>>
      [] sort_by = "engine_displacement" ->
            IF car.displacement = {} THEN <<FALSE, 0>> ELSE <<TRUE, Max(car.displacement)>>
      [] OTHER -> <<TRUE, 0>>

\* the order of Python tuples (bool, int): False before True, then the value
TupleLess(a, b) == IF a[1] # b[1] THEN ~a[1] ELSE a[2] < b[2]

\* s[a:b]
PySlice(s, a, b) ==
    LET n == Len(s)
        clamp(x) == IF x < 0 THEN (IF n + x > 0 THEN n + x ELSE 0)
                    ELSE (IF x < n THEN x ELSE n)
    IN  SubSeq(s, clamp(a) + 1, clamp(b))

\* the copy with only the basic fields
get_basic_only(car) ==
    [id |-> car.id, name |-> car.name, body_type |-> car.body_type,
     price |-> car.price, brand |-> car.brand]

\* the four validated filters in the order they are checked, then the sort
\* parameters; the first failure is raised
ValidateArguments(cs, f, sort_by, sort_order) ==
    LET checks == << _validate_filter_value("brand", f.brand, available_brands(cs)),
                     _validate_filter_value("body_type", f.body_type, available_body_types(cs)),
                     _validate_filter_value("fuel_type", f.fuel_type, available_fuel_types(cs)),
                     _validate_filter_value("transmission", f.transmission,
                                            available_transmissions(cs)),
                     IF sort_by # <<>> /\ sort_by[1] \notin ValidSortFields
                     THEN Raise(ValueError) ELSE Return(None),
                     IF sort_order \notin {"asc", "desc"}
                     THEN Raise(ValueError) ELSE Return(None) >>
        failed == {i \in 1..Len(checks) : checks[i].kind = "raise"}
    IN  IF failed = {} THEN Return(None) ELSE checks[Min(failed)]

\* filtered, sorted (by the sort key, else by price), cut to the page
CarService_list_cars(cs, limit, offset, f, sort_by, sort_order) ==
    LET valid == ValidateArguments(cs, f, sort_by, sort_order)
        filtered_cars == SelectSeq(cs, LAMBDA c : _matches_filters(c, f))
        key(c) == _get_sort_value(c, sort_by[1])
        in_order == IF sort_by # <<>>
                  THEN IF sort_order = "desc"
                       THEN StableSort(filtered_cars, {p \in Pairs(filtered_cars) : TupleLess(key(p[2]), key(p[1]))})
                       ELSE StableSort(filtered_cars, {p \in Pairs(filtered_cars) : TupleLess(key(p[1]), key(p[2]))})
                  ELSE StableSort(filtered_cars, {p \in Pairs(filtered_cars) : p[1].price < p[2].price})
        paginated == PySlice(in_order, offset, offset + limit)
    IN  IF valid.kind = "raise" THEN valid
        ELSE Return([i \in 1..Len(paginated) |-> get_basic_only(paginated[i])])

\* the queries asked, in lower case, and the car names each is a substring of
Queries == {"mahindra", "breza", "zzz"}

Contains == {<<"mahindra", "mahindra xuv 3xo">>, <<"mahindra", "mahindra bolero">>}

\* fuzz.partial_ratio(query, name), as a table
partial_ratio(query, name) ==
    CASE query = "zzz" -> 0
      [] <<query, name>> \in Contains -> 100
      [] query = "breza" /\ name = "maruti suzuki brezza" -> 80
      [] query = "breza" /\ name = "mahindra bolero" -> FuzzyThreshold
      [] OTHER -> 40

\* direct matches, else fuzzy ones at or above the threshold; sorted by the
\* sort key then the score, else by score then price; the first limit of them
CarService_search(cs, query, limit, f, sort_by, sort_order) ==
    LET valid == ValidateArguments(cs, f, sort_by, sort_order)
        scored(list, score(_)) == [i \in 1..Len(list) |-> [car |-> list[i], score |-> score(list[i])]]
        direct == scored(SelectSeq(cs, LAMBDA c :
                            <<query, c.name>> \in Contains /\ _matches_filters(c, f)),
                         LAMBDA c : 100)
        fuzzy == scored(SelectSeq(cs, LAMBDA c :
                            partial_ratio(query, c.name) >= FuzzyThreshold
                            /\ _matches_filters(c, f)),
                        LAMBDA c : partial_ratio(query, c.name))
        matching_cars == IF direct # <<>> THEN direct ELSE fuzzy
        key(x) == LET v == _get_sort_value(x.car, sort_by[1]) IN
                  <<v[1], IF sort_order = "asc" THEN v[2] ELSE -v[2], -x.score>>
        KeyLess(a, b) == IF a[1] # b[1] THEN ~a[1]
                         ELSE IF a[2] # b[2] THEN a[2] < b[2]
                         ELSE a[3] < b[3]
        in_order == IF sort_by # <<>>
                  THEN StableSort(matching_cars,
                          {p \in Pairs(matching_cars) : KeyLess(key(p[1]), key(p[2]))})
                  ELSE StableSort(matching_cars,
                          {p \in Pairs(matching_cars) :
                              \/ p[1].score > p[2].score
                              \/ p[1].score = p[2].score /\ p[1].car.price < p[2].car.price})
        results == Slice(in_order, limit)
    IN  IF valid.kind = "raise" THEN valid
        ELSE Return([i \in 1..Len(results) |-> get_basic_only(results[i].car)])

CarNotFoundError(car_id) == [class |-> "CarNotFoundError", car_id |-> car_id]

\* self.cars.get(car_id.lower()), or CarNotFoundError naming the id
CarService_get_extended_car_details(cs, car_id) ==
    LET found == {i \in 1..Len(cs) : cs[i].id = Lower[car_id]}
    IN  IF found # {} THEN Return(cs[CHOOSE i \in found : TRUE])
        ELSE Raise(CarNotFoundError(car_id))

\* the rows of the comparison matrix, in the order they are built
Features ==
    <<"Price (INR)", "Brand", "Body Type", "Engine Displacement", "Fuel Type",
      "Transmission", "Mileage", "Seating Capacity", "Rating">>

NA == <<"N/A">>

\* the entry of a car in a row: its value, or "N/A" where the row allows it
Entry(feature, car) ==
    CASE feature = "Price (INR)" -> <<car.price>>
      [] feature = "Brand" -> car.brand
      [] feature = "Body Type" -> IF car.body_type # <<>> THEN car.body_type ELSE NA
      [] feature = "Engine Displacement" ->
            IF car.displacement # {} THEN <<car.displacement>> ELSE NA
      [] feature = "Fuel Type" -> IF car.fuel_types # {} THEN <<car.fuel_types>> ELSE NA
      [] feature = "Transmission" ->
            IF car.transmission # {} THEN <<car.transmission>> ELSE NA
      [] feature = "Mileage" ->
            LET eff == car.efficiency IN
            IF "value" \in DOMAIN eff THEN <<eff.value>>
            ELSE IF "min" \in DOMAIN eff /\ "max" \in DOMAIN eff THEN <<eff.min, eff.max>>
            ELSE NA
      [] feature = "Seating Capacity" ->
            IF car.seating_capacity # <<>> THEN car.seating_capacity ELSE NA
      [] feature = "Rating" -> IF car.rating # <<>> THEN <<car.rating[1], 10>> ELSE NA

\* variant: an id that is not found is left out of the comparison
CarService_get_car_comparison_partial(cs, car_ids) ==
    LET looked == [k \in 1..Len(car_ids) |->
                      CarService_get_extended_car_details(cs, car_ids[k])]
        kept == SelectSeq(looked, LAMBDA r : r.kind = "return")
        compared == [k \in 1..Len(kept) |-> kept[k].value]
    IN  IF compared = <<>> THEN Raise(ValueError)
        ELSE Return([cars |-> compared,
                     comparison_matrix |->
                        [r \in 1..Len(Features) |->
                            [feature |-> Features[r],
                             entries |-> [k \in 1..Len(compared) |->
                                             Entry(Features[r], compared[k])]]]])

\* every id is looked up first, the first one missing raising; no car at all
\* is a ValueError; else one row per feature with one entry per car
CarService_get_car_comparison(cs, car_ids) ==
    LET looked == [k \in 1..Len(car_ids) |->
                      CarService_get_extended_car_details(cs, car_ids[k])]
        missing == {k \in 1..Len(car_ids) : looked[k].kind = "raise"}
        compared == [k \in 1..Len(car_ids) |-> looked[k].value]
    IN  IF missing # {} THEN looked[Min(missing)]
        ELSE IF compared = <<>> THEN Raise(ValueError)
        ELSE Return([cars |-> compared,
                     comparison_matrix |->
                        [r \in 1..Len(Features) |->
                            [feature |-> Features[r],
                             entries |-> [k \in 1..Len(compared) |->
                                             Entry(Features[r], compared[k])]]]])

----------------------------------------------------------------------------
(* The Agent Loop (StreamingChatWithTools) and the ToolRegistry *)

\* the tools AgentToolKit registers
RegisteredTools == ToolNames \cup {"book_ride", "confirm_ride"}

\* the names a model turn asks for: a registered tool, or one that is not
RequestedNames == {"search_faq", "no_such_tool"}

\* the tool lists of one model turn; the empty list is a final answer
RequestLists == UNION {[1..n -> RequestedNames] : n \in 0..MaxCalls}

\* an optional message: absent, or the message
NoMessage == <<>>

ToolCallRequest(id, name) == [id |-> id, name |-> name]

ToolResult(id, name, output, status) ==
    [id |-> id, name |-> name, output |-> output, status |-> status]

Message(role, content, tool_call_requests, tool_results) ==
    [role |-> role, content |-> content,
     tool_call_requests |-> tool_call_requests, tool_results |-> tool_results]

SystemMessage(content) == Message("system", content, <<>>, <<>>)

UserMessage(content, tool_results) == Message("user", content, <<>>, tool_results)

AIMessage(content, tool_call_requests) == Message("ai", content, tool_call_requests, <<>>)

AgentStep(tool_results, status) == [tool_results |-> tool_results, status |-> status]

AgentResponse(step_list, final_message) ==
    [steps |-> step_list, final_message |-> final_message]

CapMessage == AIMessage("iteration cap reached", <<>>)

\* ToolRegistry.invoke with an unknown name raising instead of answering
invoke_raises(request) ==
    IF request.name \in RegisteredTools
    THEN Return(ToolResult(request.id, request.name, "text", "SUCCESS"))
    ELSE Raise("KeyError")

\* ToolRegistry.invoke: the tool's text with SUCCESS; an unknown name (or a
\* raising function) is captured as a FAILURE result.  The tools of
\* AgentToolKit return text on every path.
invoke(request) ==
    IF request.name \in RegisteredTools
    THEN Return(ToolResult(request.id, request.name, "text", "SUCCESS"))
    ELSE Return(ToolResult(request.id, request.name, "unknown tool", "FAILURE"))

\* the requests of the model turn being executed
CurrentRequests(msgs) == msgs[Len(msgs)].tool_call_requests

\* the result slots of a new step: one per request, not yet executed
PendingResults(requests) ==
    [k \in 1..Len(requests) |-> ToolResult(requests[k].id, requests[k].name, None, "SUCCESS")]

Executed(result) == result.output # None

\* one more invocation of the request with this id
Count(counts, id) ==
    IF id \in DOMAIN counts
    THEN [counts EXCEPT ![id] = @ + 1]
    ELSE (id :> 1) @@ counts

AgentIdle ==
    /\ phase = "IDLE"
    /\ iterations = 0
    /\ messages = <<>>
    /\ steps = <<>>
    /\ emitted = <<>>
    /\ invoked = <<>>

----------------------------------------------------------------------------
(* History of removals, per phone *)

\* removed[phone] = <<why, otp>>: the session of phone that held otp left the
\* dict for the reason why; <<"no", <<>>>> while a session is stored
Reason(phone, before, after, why) ==
    IF phone \in Keys(before) /\ phone \notin Keys(after)
    THEN <<why, Get(before, phone).otp>>
    ELSE removed[phone]

----------------------------------------------------------------------------
(* Actions *)

Init ==
    /\ state = <<>>
    /\ now = 0
    /\ secret_otp \in Secrets
    /\ op = "init"
    /\ args = <<>>
    /\ ret = None
    /\ removed = [p \in Phones |-> <<"never", <<>>>>]
    /\ faqs = <<>>
    /\ question_embeddings = <<>>
    /\ answer_embeddings = <<>>
    /\ cache = NoCache
    /\ AgentIdle
    /\ cars = <<>>
    /\ threads = NoCalls

Tick ==
    /\ \E minutes \in Advances :
          /\ now + minutes <= MaxTime
          /\ now' = now + minutes
    /\ UNCHANGED <<state, secret_otp, op, args, ret, removed, faqVars, agentVars, cars, threads>>

StoreOtp(phone, otp, name) ==
    /\ op' = "store_otp"
    /\ state' = store_otp(state, phone, otp, name, now)
    /\ args' = <<phone, otp, name>>
    /\ ret' = None
    /\ removed' = [removed EXCEPT ![phone] = <<"no", <<>>>>]
    /\ UNCHANGED <<now, secret_otp, faqVars, agentVars, cars, threads>>

VerifyOtp(phone, otp) ==
    LET r == verify_otp(state, phone, otp, now) IN
    /\ op' = "verify_otp"
    /\ state' = r.state
    /\ args' = <<phone, otp>>
    /\ ret' = r.ret
    /\ removed' = [removed EXCEPT ![phone] =
                     Reason(phone, state, r.state, IF r.ret[1] THEN "verified" ELSE "expired")]
    /\ UNCHANGED <<now, secret_otp, faqVars, agentVars, cars, threads>>

CleanupExpired(expiry_minutes) ==
    /\ op' = "cleanup_expired"
    /\ state' = cleanup_expired(state, expiry_minutes, now)
    /\ args' = <<expiry_minutes>>
    /\ ret' = None
    /\ removed' = [p \in Phones |-> Reason(p, state, state', "swept")]
    /\ UNCHANGED <<now, secret_otp, faqVars, agentVars, cars, threads>>

BookRide(name, phone_number, n, webhook) ==
    LET r == book_ride(state, name, phone_number, n, webhook, now) IN
    /\ op' = "book_ride"
    /\ state' = r.state
    /\ args' = <<name, phone_number, str(n), webhook>>
    /\ ret' = r.ret
    /\ removed' = [removed EXCEPT ![phone_number] = <<"no", <<>>>>]
    /\ UNCHANGED <<now, secret_otp, faqVars, agentVars, cars, threads>>

ConfirmRide(otp) ==
    LET r == confirm_ride(state, otp, secret_otp, now) IN
    /\ op' = "confirm_ride"
    /\ state' = r.state
    /\ args' = <<otp>>
    /\ ret' = r.ret
    /\ removed' = [p \in Phones |->
                     Reason(p, state, r.state,
                            IF r.ret.value = InvalidOtpText THEN "expired" ELSE "verified")]
    /\ UNCHANGED <<now, secret_otp, faqVars, agentVars, cars, threads>>

\* the serializer runs only on what the service returned
Outcomes(svcs) ==
    {<<svc, "ok">> : svc \in svcs} \cup {<<"ok", ser>> : ser \in SerializerOutcomes}

\* a call of a tool that does not touch the session map
Called(name, svc, ser, result) ==
    /\ op' = name
    /\ args' = <<svc, ser>>
    /\ ret' = result
    /\ UNCHANGED <<otpVars, faqVars, agentVars, cars, threads>>

ListCars == \E o \in Outcomes(CarOutcomes \ {"CarNotFoundError"}) :
    Called("list_cars", o[1], o[2], list_cars(o[1], o[2]))

SearchCar == \E o \in Outcomes(CarOutcomes \ {"CarNotFoundError"}) :
    Called("search_car", o[1], o[2], search_car(o[1], o[2]))

GetCarDetails == \E o \in Outcomes(CarOutcomes \ {"empty", "InvalidFilterError"}) :
    Called("get_car_details", o[1], o[2], get_car_details(o[1], o[2]))

GetExtendedCarDetails == \E o \in Outcomes(CarOutcomes \ {"empty", "InvalidFilterError"}) :
    Called("get_extended_car_details", o[1], o[2], get_extended_car_details(o[1], o[2]))

GetCarComparison == \E o \in Outcomes(CarOutcomes \ {"empty", "InvalidFilterError"}) :
    Called("get_car_comparison", o[1], o[2], get_car_comparison(o[1], o[2]))

ListBikes == \E o \in Outcomes(BikeOutcomes \ {"BikeNotFoundError"}) :
    Called("list_bikes", o[1], o[2], list_bikes(o[1], o[2]))

SearchBike == \E o \in Outcomes(BikeOutcomes \ {"BikeNotFoundError"}) :
    Called("search_bike", o[1], o[2], search_bike(o[1], o[2]))

GetBikeDetails == \E o \in Outcomes(BikeOutcomes \ {"empty", "InvalidBikeFilterError"}) :
    Called("get_bike_details", o[1], o[2], get_bike_details(o[1], o[2]))

GetExtendedBikeDetails == \E o \in Outcomes(BikeOutcomes \ {"empty", "InvalidBikeFilterError"}) :
    Called("get_extended_bike_details", o[1], o[2], get_extended_bike_details(o[1], o[2]))

GetBikeComparison == \E o \in Outcomes(BikeOutcomes \ {"empty", "InvalidBikeFilterError"}) :
    Called("get_bike_comparison", o[1], o[2], get_bike_comparison(o[1], o[2]))

SearchFaq == \E o \in Outcomes(FaqOutcomes) :
    Called("search_faq", o[1], o[2], search_faq(o[1], o[2]))

FindNearestEvCharger == \E o \in Outcomes(EvOutcomes) :
    Called("find_nearest_ev_charger", o[1], o[2], find_nearest_ev_charger(o[1], o[2]))

Book == \E name \in Names, phone \in Phones, n \in RandInts, webhook \in SlackOutcomes :
    BookRide(name, phone, n, webhook)

Confirm == \E otp \in Codes : ConfirmRide(otp)

\* the StateManager driven through its own methods
NextState ==
    \/ Tick
    \/ \E phone \in Phones, otp \in Codes, name \in Names : StoreOtp(phone, otp, name)
    \/ \E phone \in Phones, otp \in Codes : VerifyOtp(phone, otp)
    \/ \E w \in Windows : CleanupExpired(w)

SpecState == Init /\ [][NextState]_vars

\* the booking flow driven through the toolkit
NextBooking ==
    \/ Tick
    \/ Book
    \/ Confirm

SpecBooking == Init /\ [][NextBooking]_vars

\* every tool of the toolkit
NextTools ==
    \/ Tick
    \/ Book
    \/ Confirm
    \/ ListCars
    \/ SearchCar
    \/ GetCarDetails
    \/ GetExtendedCarDetails
    \/ GetCarComparison
    \/ SearchFaq
    \/ FindNearestEvCharger
    \/ ListBikes
    \/ SearchBike
    \/ GetBikeDetails
    \/ GetExtendedBikeDetails
    \/ GetBikeComparison

SpecTools == Init /\ [][NextTools]_vars

----------------------------------------------------------------------------
(* FAQService on its own *)

Limits == (-1)..MaxLimit

FaqData == UNION {[1..n -> [question : Texts, answer : Texts]] : n \in 1..MaxFaqs}

\* FAQService.__init__ with no usable cache: load, embed, keep
InitFAQ ==
    /\ state = <<>>
    /\ now = 0
    /\ secret_otp = <<>>
    /\ op = "init"
    /\ args = <<>>
    /\ ret = None
    /\ removed = [p \in Phones |-> <<"never", <<>>>>]
    /\ \E faq_data \in FaqData :
          LET made == _generate_and_cache_embeddings(LoadFaqs(faq_data)) IN
          /\ faqs = LoadFaqs(faq_data)
          /\ question_embeddings = made.question_embeddings
          /\ answer_embeddings = made.answer_embeddings
          /\ cache = made.cache
    /\ AgentIdle
    /\ cars = <<>>
    /\ threads = NoCalls

\* a search that sorts the records of the service itself
Search_inplace(query, limit, provider) ==
    /\ op' = "search"
    /\ args' = <<query, limit>>
    /\ ret' = IF provider = "ok"
              THEN Return(search(faqs, question_embeddings, answer_embeddings, query, limit))
              ELSE Raise(provider)
    /\ faqs' = Reverse(faqs)
    /\ UNCHANGED <<otpVars, question_embeddings, answer_embeddings, cache, agentVars, cars, threads>>

\* FAQService.search; the embedding provider answers or fails
Search(query, limit, provider) ==
    /\ op' = "search"
    /\ args' = <<query, limit>>
    /\ ret' = IF provider = "ok"
              THEN Return(search(faqs, question_embeddings, answer_embeddings, query, limit))
              ELSE Raise(provider)
    /\ UNCHANGED <<otpVars, faqVars, agentVars, cars, threads>>

NextFAQ == \E query \in Texts, limit \in Limits, provider \in {"ok", "Exception"} :
    Search(query, limit, provider)

SpecFAQ == InitFAQ /\ [][NextFAQ]_vars

----------------------------------------------------------------------------
(* FAQService construction and its cache file *)

\* the FAQ file of a run holds some of these records, in some order
FaqRecords == {[question |-> "t10", answer |-> "t11"], [question |-> "t01", answer |-> "t00"]}

FaqFiles == UNION {[1..n -> FaqRecords] : n \in 1..MaxFaqs}

\* what can happen to the file between two runs of the service
CacheChanges == {"deleted", "garbage", "no_metadata", "short_answers"}

\* FAQService.__init__: load the records, then take the matrices from the
\* cache file when it exists and validates, else compute them and write the
\* file; a provider failure while computing leaves no service
Construct(faq_data, provider) ==
    /\ op' = "__init__"
    /\ args' = <<faq_data>>
    /\ LET fs == LoadFaqs(faq_data) IN
       IF _cache_exists(cache) /\ _validate_cache(cache, fs)
       THEN LET got == _load_from_cache(cache) IN
            /\ ret' = Return(None)
            /\ faqs' = fs
            /\ question_embeddings' = got.question_embeddings
            /\ answer_embeddings' = got.answer_embeddings
            /\ cache' = cache
       ELSE IF provider = "ok"
       THEN LET made == _generate_and_cache_embeddings(fs) IN
            /\ ret' = Return(None)
            /\ faqs' = fs
            /\ question_embeddings' = made.question_embeddings
            /\ answer_embeddings' = made.answer_embeddings
            /\ cache' = made.cache
       ELSE /\ ret' = Raise(provider)
            /\ UNCHANGED faqVars
    /\ UNCHANGED <<otpVars, agentVars, cars, threads>>

\* the file is removed, cut short while being written, or edited
CacheFileChanged(change) ==
    /\ op' = "cache_file_changed"
    /\ args' = <<change>>
    /\ ret' = None
    /\ cache.kind # "absent"
    /\ cache' = CASE change = "deleted" -> NoCache
                  [] change = "garbage" -> GarbageCache
                  [] change = "no_metadata" ->
                        [cache EXCEPT !.keys = @ \ {"metadata"}, !.metadata = <<>>]
                  [] change = "short_answers" ->
                        [cache EXCEPT !.answers = SubSeq(@, 1, Len(@) - 1)]
    /\ UNCHANGED <<otpVars, faqs, question_embeddings, answer_embeddings, agentVars, cars, threads>>

InitCache ==
    /\ state = <<>>
    /\ now = 0
    /\ secret_otp = <<>>
    /\ op = "init"
    /\ args = <<>>
    /\ ret = None
    /\ removed = [p \in Phones |-> <<"never", <<>>>>]
    /\ faqs = <<>>
    /\ question_embeddings = <<>>
    /\ answer_embeddings = <<>>
    /\ cache = NoCache
    /\ AgentIdle
    /\ cars = <<>>
    /\ threads = NoCalls

NextCache ==
    \/ \E faq_data \in FaqFiles, provider \in {"ok", "Exception"} :
          Construct(faq_data, provider)
    \/ \E change \in CacheChanges : CacheFileChanged(change)

SpecCache == InitCache /\ [][NextCache]_vars

----------------------------------------------------------------------------
(* One turn of the Agent Loop *)

restVars == <<otpVars, faqVars, op, args, ret, cars, threads>>

\* the snapshot yielded on a transition
Emit(step_list, final_message) == Append(emitted, AgentResponse(step_list, final_message))

\* AWAITING_MODEL: the model answers with an AIMessage, or the transport fails
\* and the error ends the turn
CallModel(names, transport) ==
    /\ phase = "AWAITING_MODEL"
    /\ iterations < MaxIterations
    /\ IF transport = "ok"
       THEN /\ phase' = "MODEL_RESPONDED"
            /\ messages' = Append(messages, AIMessage("",
                  [k \in 1..Len(names) |-> ToolCallRequest(<<iterations + 1, k>>, names[k])]))
            /\ emitted' = Emit(steps, NoMessage)
       ELSE /\ phase' = "FAILED"
            /\ UNCHANGED <<messages, emitted>>
    /\ UNCHANGED <<iterations, steps, invoked, restVars>>

\* the cap reached and never left
ForceFinal_retry ==
    /\ phase = "AWAITING_MODEL"
    /\ iterations >= MaxIterations
    /\ phase' = "AWAITING_MODEL"
    /\ UNCHANGED <<messages, emitted, iterations, steps, invoked, restVars>>

\* AWAITING_MODEL with the iteration cap reached: FINAL with a synthetic message
ForceFinal ==
    /\ phase = "AWAITING_MODEL"
    /\ iterations >= MaxIterations
    /\ phase' = "FINAL"
    /\ messages' = Append(messages, CapMessage)
    /\ emitted' = Emit(steps, <<CapMessage>>)
    /\ UNCHANGED <<iterations, steps, invoked, restVars>>

\* MODEL_RESPONDED: no tool call is FINAL, else a new PENDING step
Respond ==
    /\ phase = "MODEL_RESPONDED"
    /\ LET m == messages[Len(messages)] IN
       IF m.tool_call_requests = <<>>
       THEN /\ phase' = "FINAL"
            /\ emitted' = Emit(steps, <<m>>)
            /\ UNCHANGED steps
       ELSE /\ phase' = "EXECUTING_TOOLS"
            /\ steps' = Append(steps, AgentStep(PendingResults(m.tool_call_requests), "PENDING"))
            /\ emitted' = Emit(steps', NoMessage)
    /\ UNCHANGED <<iterations, messages, invoked, restVars>>

\* a finished tool's result stored in the first free slot of the step
ExecuteTool_firstfree(k) ==
    /\ phase = "EXECUTING_TOOLS"
    /\ k \in 1..Len(CurrentRequests(messages))
    /\ CurrentRequests(messages)[k].id \notin DOMAIN invoked
    /\ LET outcome == invoke(CurrentRequests(messages)[k])
           results == steps[Len(steps)].tool_results
           free == CHOOSE j \in 1..Len(results) :
                      /\ ~Executed(results[j])
                      /\ \A i \in 1..(j - 1) : Executed(results[i])
       IN  /\ steps' = [steps EXCEPT ![Len(steps)].tool_results[free] = outcome.value]
           /\ invoked' = Count(invoked, CurrentRequests(messages)[k].id)
           /\ UNCHANGED phase
    /\ UNCHANGED <<iterations, messages, emitted, restVars>>

\* EXECUTING_TOOLS: request k, not executed yet, is handed to the registry
\* and its result fills slot k; the requests may finish in any order
ExecuteTool(k) ==
    /\ phase = "EXECUTING_TOOLS"
    /\ k \in 1..Len(CurrentRequests(messages))
    /\ ~Executed(steps[Len(steps)].tool_results[k])
    /\ LET outcome == invoke(CurrentRequests(messages)[k]) IN
       IF outcome.kind = "return"
       THEN /\ steps' = [steps EXCEPT ![Len(steps)].tool_results[k] = outcome.value]
            /\ invoked' = Count(invoked, CurrentRequests(messages)[k].id)
            /\ UNCHANGED phase
       ELSE /\ phase' = "FAILED"
            /\ UNCHANGED <<steps, invoked>>
    /\ UNCHANGED <<iterations, messages, emitted, restVars>>

\* a step whose results are all in is closed without being marked DONE
FinishStep_pending ==
    /\ phase = "EXECUTING_TOOLS"
    /\ \A k \in 1..Len(CurrentRequests(messages)) :
          Executed(steps[Len(steps)].tool_results[k])
    /\ messages' = Append(messages, UserMessage("", steps[Len(steps)].tool_results))
    /\ emitted' = Emit(steps, NoMessage)
    /\ iterations' = iterations + 1
    /\ phase' = "AWAITING_MODEL"
    /\ UNCHANGED <<steps, invoked, restVars>>

\* EXECUTING_TOOLS with every result in: the step is DONE, a User message
\* carries its results to the model, and the loop awaits the model again
FinishStep ==
    /\ phase = "EXECUTING_TOOLS"
    /\ \A k \in 1..Len(CurrentRequests(messages)) :
          Executed(steps[Len(steps)].tool_results[k])
    /\ steps' = [steps EXCEPT ![Len(steps)].status = "DONE"]
    /\ messages' = Append(messages, UserMessage("", steps[Len(steps)].tool_results))
    /\ emitted' = Emit(steps', NoMessage)
    /\ iterations' = iterations + 1
    /\ phase' = "AWAITING_MODEL"
    /\ UNCHANGED <<invoked, restVars>>

\* the turn begins: the history holds the instructions and the user's input
InitAgent ==
    /\ state = <<>>
    /\ now = 0
    /\ secret_otp = <<>>
    /\ op = "init"
    /\ args = <<>>
    /\ ret = None
    /\ removed = [p \in Phones |-> <<"never", <<>>>>]
    /\ faqs = <<>>
    /\ question_embeddings = <<>>
    /\ answer_embeddings = <<>>
    /\ cache = NoCache
    /\ phase = "AWAITING_MODEL"
    /\ iterations = 0
    /\ messages = <<SystemMessage("instructions"), UserMessage("input", <<>>)>>
    /\ steps = <<>>
    /\ emitted = <<>>
    /\ invoked = <<>>
    /\ cars = <<>>
    /\ threads = NoCalls

NextAgent ==
    \/ \E names \in RequestLists, transport \in {"ok", "LLMTransportError"} :
          CallModel(names, transport)
    \/ ForceFinal
    \/ Respond
    \/ \E k \in 1..MaxCalls : ExecuteTool(k)
    \/ FinishStep

SpecAgent == InitAgent /\ [][NextAgent]_vars

\* the loop is driven to its end: a step that can be taken is taken
SpecAgentFair == SpecAgent /\ WF_vars(NextAgent)

----------------------------------------------------------------------------
(* CarService on its own *)

\* the values tried for each filter
FilterValues ==
    {<<"min_price", 9>>, <<"max_price", 9>>,
     <<"brand", "mahindra">>, <<"brand", "Fiat">>, <<"brand", "Mahindr">>,
     <<"body_type", "suv">>, <<"body_type", "Coupe">>,
     <<"fuel_type", "PETROL">>, <<"fuel_type", "Hydrogen">>,
     <<"mileage_more_than", 20>>, <<"mileage_less_than", 20>>,
     <<"seating_capacity", 5>>,
     <<"transmission", "manual">>, <<"transmission", "CVT">>,
     <<"engine_displacement_more_than", 1462>>, <<"engine_displacement_less_than", 1462>>}

\* no filter, one, or two different ones
FilterSets ==
    LET with(f, p) == [f EXCEPT ![p[1]] = Some(p[2])] IN
    {NoFilters} \cup
    {with(with(NoFilters, p), q) : p \in FilterValues, q \in FilterValues}

\* filters with the default order, or an order with no filter
CarArguments ==
    {<<f, <<>>, "asc">> : f \in FilterSets} \cup
    {<<NoFilters, sort_by, sort_order>> :
        sort_by \in {<<>>} \cup {Some(field) : field \in ValidSortFields \cup {"colour"}},
        sort_order \in {"asc", "desc", "up"}}

\* CarService.__init__ has loaded the cars of a folder
InitCars ==
    /\ state = <<>>
    /\ now = 0
    /\ secret_otp = <<>>
    /\ op = "init"
    /\ args = <<>>
    /\ ret = None
    /\ removed = [p \in Phones |-> <<"never", <<>>>>]
    /\ faqs = <<>>
    /\ question_embeddings = <<>>
    /\ answer_embeddings = <<>>
    /\ cache = NoCache
    /\ AgentIdle
    /\ cars \in Catalogs
    /\ threads = NoCalls

\* CarService.list_cars; the service keeps nothing between calls, so one call
\* is made on each loaded service
ServiceListCars ==
    /\ op = "init"
    /\ \E limit \in Limits, offset \in Limits, a \in CarArguments :
          /\ op' = "list_cars"
          /\ args' = <<limit, offset, a[1], a[2], a[3]>>
          /\ ret' = CarService_list_cars(cars, limit, offset, a[1], a[2], a[3])
    /\ UNCHANGED <<otpVars, faqVars, agentVars, cars, threads>>

\* CarService.search
ServiceSearch ==
    /\ op = "init"
    /\ \E query \in Queries, limit \in Limits, a \in CarArguments :
          /\ op' = "search_cars"
          /\ args' = <<query, limit, a[1], a[2], a[3]>>
          /\ ret' = CarService_search(cars, query, limit, a[1], a[2], a[3])
    /\ UNCHANGED <<otpVars, faqVars, agentVars, cars, threads>>

\* the ids a comparison is asked for
ComparedIds == {"mahindra_xuv_3xo", "MARUTI_BREZZA", "tata_punch_ev", "nonexistent"}

IdLists == UNION {[1..n -> ComparedIds] : n \in 0..MaxIds}

\* CarService.get_car_comparison
ServiceGetCarComparison ==
    /\ op = "init"
    /\ \E car_ids \in IdLists :
          /\ op' = "get_car_comparison"
          /\ args' = <<car_ids>>
          /\ ret' = CarService_get_car_comparison(cars, car_ids)
    /\ UNCHANGED <<otpVars, faqVars, agentVars, cars, threads>>

NextCars ==
    \/ ServiceListCars
    \/ ServiceSearch
    \/ ServiceGetCarComparison

SpecCars == InitCars /\ [][NextCars]_vars

----------------------------------------------------------------------------
(* StateManager calls interleaved statement by statement *)

\* the session the phone has at this moment, if any
Current(phone) == IF phone \in Keys(state) THEN <<Get(state, phone)>> ELSE <<>>

\* the thread moves to pc with its local variable stored set
Goto(t, pc, stored) ==
    /\ threads' = [threads EXCEPT ![t].pc = pc, ![t].stored = stored]
    /\ UNCHANGED <<state, removed>>

\* the thread returns or raises
Done(t, outcome) ==
    threads' = [threads EXCEPT ![t].pc = "done", ![t].outcome = outcome]

\* del self._state[phone], which raises KeyError when the key is gone, and
\* the return that follows it
Del(t, value, why) ==
    LET phone == threads[t].phone IN
    IF phone \in Keys(state)
    THEN /\ state' = DictDel(state, phone)
         /\ removed' = [removed EXCEPT ![phone] = <<why, Get(state, phone).otp>>]
         /\ Done(t, Return(value))
    ELSE /\ Done(t, Raise("KeyError"))
         /\ UNCHANGED <<state, removed>>

\* a thread enters verify_otp(phone, otp)
CallVerify(t, phone, otp) ==
    /\ threads[t].pc = "idle"
    /\ threads' = [threads EXCEPT ![t] =
                      Call("43", "verify_otp", phone, otp, "", <<>>, Current(phone), <<>>)]
    /\ UNCHANGED <<state, removed>>

\* a thread enters store_otp(phone, otp, name)
CallStore(t, phone, otp, name) ==
    /\ threads[t].pc = "idle"
    /\ threads' = [threads EXCEPT ![t] =
                      Call("23", "store_otp", phone, otp, name, <<>>, Current(phone), <<>>)]
    /\ UNCHANGED <<state, removed>>

\* state.py:23  self._state[phone] = {...}
Line23(t) ==
    /\ threads[t].pc = "23"
    /\ state' = store_otp(state, threads[t].phone, threads[t].otp, threads[t].name, now)
    /\ removed' = [removed EXCEPT ![threads[t].phone] = <<"no", <<>>>>]
    /\ Done(t, Return(None))

\* state.py:43  if phone not in self._state: return False, None
Line43(t) ==
    /\ threads[t].pc = "43"
    /\ IF threads[t].phone \in Keys(state)
       THEN Goto(t, "46", <<>>)
       ELSE Done(t, Return(<<FALSE, None>>)) /\ UNCHANGED <<state, removed>>

\* state.py:46  stored = self._state[phone]
Line46(t) ==
    /\ threads[t].pc = "46"
    /\ IF threads[t].phone \in Keys(state)
       THEN Goto(t, "49", <<Get(state, threads[t].phone)>>)
       ELSE Done(t, Raise("KeyError")) /\ UNCHANGED <<state, removed>>

\* state.py:49  if datetime.now() - stored["timestamp"] > timedelta(minutes=10):
Line49(t) ==
    /\ threads[t].pc = "49"
    /\ IF Expired(threads[t].stored[1], ExpiryMinutes, now)
       THEN Goto(t, "50", threads[t].stored)
       ELSE Goto(t, "54", threads[t].stored)

\* state.py:50-51  del self._state[phone]; return False, None
Line50(t) ==
    /\ threads[t].pc = "50"
    /\ Del(t, <<FALSE, None>>, "expired")

\* state.py:54  if stored["otp"] == otp:  (else line 59, return False, None)
Line54(t) ==
    /\ threads[t].pc = "54"
    /\ IF threads[t].stored[1].otp = threads[t].otp
       THEN Goto(t, "55", threads[t].stored)
       ELSE Done(t, Return(<<FALSE, None>>)) /\ UNCHANGED <<state, removed>>

\* state.py:55  name = stored["name"]
Line55(t) ==
    /\ threads[t].pc = "55"
    /\ threads' = [threads EXCEPT ![t].pc = "56", ![t].name = threads[t].stored[1].name]
    /\ UNCHANGED <<state, removed>>

\* state.py:56-57  del self._state[phone]; return True, name
Line56(t) ==
    /\ threads[t].pc = "56"
    /\ Del(t, <<TRUE, threads[t].name>>, "verified")

\* a statement of some thread
Statement(t) ==
    /\ \/ Line23(t)
       \/ Line43(t)
       \/ Line46(t)
       \/ Line49(t)
       \/ Line50(t)
       \/ Line54(t)
       \/ Line55(t)
       \/ Line56(t)
    /\ UNCHANGED <<now, secret_otp, op, args, ret, faqVars, agentVars, cars>>

\* the codes and the name the threads call with
ThreadCodes == {str(OtpLow), str(OtpHigh)}
ThreadName == "Jane Roe"

\* a thread starts a call
Enter(t) ==
    /\ \/ \E phone \in Phones, otp \in ThreadCodes : CallVerify(t, phone, otp)
       \/ \E phone \in Phones, otp \in ThreadCodes : CallStore(t, phone, otp, ThreadName)
    /\ UNCHANGED <<now, secret_otp, op, args, ret, faqVars, agentVars, cars>>

\* a session is stored before any thread starts; then the threads run, the
\* clock advancing in between
NextThreads ==
    \/ /\ threads = NoCalls
       /\ op = "init"
       /\ \E phone \in Phones, otp \in Codes, name \in Names : StoreOtp(phone, otp, name)
    \/ Tick
    \/ \E t \in Threads : Enter(t)
    \/ \E t \in Threads : Statement(t)

SpecThreads == Init /\ [][NextThreads]_vars

----------------------------------------------------------------------------
(* Properties of the StateManager *)

\* phone has a session that has not passed the expiry window at time t
Live(d, phone, t) ==
    phone \in Keys(d) /\ ~Expired(Get(d, phone), ExpiryMinutes, t)

Range(d) == {d[i] : i \in 1..Len(d)}

\* C1: OTP round trip and one-time use.  store_otp(phone, code, name) leaves
\* the session (code, name, now) for phone; a verify_otp(phone, code) on a
\* session stored with that code and not past the 10-minute window returns
\* (True, name) and deletes the session; every verify_otp for that phone after
\* a successful one, with no store_otp in between, returns (False, None).
C1_RoundTripOneTimeUse ==
    [][ /\ \A p \in Phones, c \in Codes, n \in Names :
              StoreOtp(p, c, n) =>
                 \A t \in now..(now + ExpiryMinutes) :
                    verify_otp(state', p, c, t) =
                       [state |-> DictDel(state', p), ret |-> <<TRUE, n>>]
        /\ \A p \in Phones, c \in Codes :
              VerifyOtp(p, c) =>
                 /\ (Live(state, p, now) /\ Get(state, p).otp = c) =>
                       /\ ret' = <<TRUE, Get(state, p).name>>
                       /\ p \notin Keys(state')
                 /\ removed[p][1] = "verified" =>
                       /\ ret' = <<FALSE, None>>
                       /\ removed'[p][1] = "verified"
      ]_vars

\* a second verify_otp with the code of a session that a verify consumed
C1_Witness ==
    /\ op = "verify_otp"
    /\ ret = <<FALSE, None>>
    /\ removed[args[1]] = <<"verified", args[2]>>

\* C2: a verify_otp called after the expiry window has elapsed since the
\* session's issue time returns (False, None) whatever the code, removes the
\* session, and every later verify_otp for the phone returns (False, None)
\* until a new store_otp.
C2_Expiry ==
    [][ \A p \in Phones, c \in Codes :
           VerifyOtp(p, c) =>
              /\ (p \in Keys(state) /\ now - Get(state, p).timestamp > ExpiryMinutes) =>
                    /\ ret' = <<FALSE, None>>
                    /\ p \notin Keys(state')
              /\ removed[p][1] = "expired" =>
                    /\ ret' = <<FALSE, None>>
                    /\ p \notin Keys(state')
                    /\ removed'[p][1] = "expired"
      ]_vars

\* a verify_otp with the stored code failed on a session removed for expiry
C2_Witness ==
    /\ op = "verify_otp"
    /\ ret = <<FALSE, None>>
    /\ removed[args[1]] = <<"expired", args[2]>>

\* C3: a verify_otp with a wrong code on an unexpired session returns
\* (False, None) and leaves the session map unchanged, so that a verify_otp
\* with the stored code then returns (True, name).
C3_WrongCodeKeepsSession ==
    [][ \A p \in Phones, c \in Codes :
           (VerifyOtp(p, c) /\ Live(state, p, now) /\ Get(state, p).otp # c) =>
              /\ ret' = <<FALSE, None>>
              /\ state' = state
              /\ verify_otp(state', p, Get(state, p).otp, now').ret
                    = <<TRUE, Get(state, p).name>>
      ]_vars

\* a wrong code was just refused and the session is still there and live
C3_Witness ==
    /\ op = "verify_otp"
    /\ ret = <<FALSE, None>>
    /\ Live(state, args[1], now)
    /\ Get(state, args[1]).otp # args[2]

\* C4: at most one session per phone after any sequence of operations; a
\* store_otp for a phone that has a session replaces its otp, name and issue
\* time, so the earlier code no longer verifies and the later code returns the
\* later name.
C4_OneSessionPerPhone ==
    [][ /\ \A i, j \in 1..Len(state') : state'[i].phone = state'[j].phone => i = j
        /\ \A p \in Phones, c \in Codes, n \in Names :
              StoreOtp(p, c, n) =>
                 /\ {r \in Range(state') : r.phone = p} = {Session(p, c, n, now)}
                 /\ verify_otp(state', p, c, now').ret = <<TRUE, n>>
                 /\ \A c0 \in Codes \ {c} :
                       verify_otp(state', p, c0, now').ret = <<FALSE, None>>
      ]_vars

\* a store_otp overwrote in place: the phone stored last sits before a phone
\* whose session is older
C4_Witness ==
    /\ op = "store_otp"
    /\ Len(state) = 2
    /\ state[1].phone = args[1]
    /\ state[1].otp = args[2]
    /\ state[1].timestamp > state[2].timestamp

\* C5: cleanup_expired(w) removes exactly the sessions whose age exceeds w
\* minutes: no remaining session is older than w, and every session not older
\* than w is retained with its otp, name and timestamp.
C5_CleanupExact ==
    [][ \A w \in Windows :
           CleanupExpired(w) =>
              /\ \A r \in Range(state') : now - r.timestamp <= w
              /\ \A r \in Range(state) : now - r.timestamp <= w => r \in Range(state')
              /\ Range(state') \subseteq Range(state)
      ]_vars

\* a sweep with the default window removed one phone's session, older than
\* the window, and kept the other's
C5_Witness ==
    /\ op = "cleanup_expired"
    /\ args = <<ExpiryMinutes>>
    /\ \E p \in Phones : removed[p][1] = "swept"
    /\ state # <<>>

----------------------------------------------------------------------------
(* Properties of the toolkit *)

\* some session that has not expired holds otp
HeldLive(d, otp, t) ==
    \E i \in 1..Len(d) : d[i].otp = otp /\ ~Expired(d[i], ExpiryMinutes, t)

\* C6 (as stated): confirm_ride returns a string and never raises, and
\* whenever the otp matches no unexpired session it returns the 'Invalid or
\* expired OTP' message.
C6_AsStated ==
    [][ \A c \in Codes :
           ConfirmRide(c) =>
              /\ ret'.kind = "return"
              /\ ~HeldLive(state, c, now) => ret'.value = InvalidOtpText
      ]_vars

\* C6 (amended): confirm_ride returns a string and never raises, and whenever
\* the otp matches no unexpired session and is not the configured
\* INTERNAL_SECRET_OTP it returns the 'Invalid or expired OTP' message.
C6_OtpErrorsAreValues ==
    [][ \A c \in Codes :
           ConfirmRide(c) =>
              /\ ret'.kind = "return"
              /\ (~HeldLive(state, c, now) /\ ~(secret_otp # <<>> /\ c = secret_otp)) =>
                    ret'.value = InvalidOtpText
      ]_vars

\* confirm_ride refused the otp of a session that had expired
C6_Witness ==
    /\ op = "confirm_ride"
    /\ ret = Return(InvalidOtpText)
    /\ \E p \in Phones : removed[p] = <<"expired", args[1]>>

\* C7: when send_message raises, book_ride has stored the session, so that
\* the generated OTP verifies, and returns the normal confirmation message.
C7_NotificationFailureDoesNotAbort ==
    [][ \A name \in Names, phone \in Phones, n \in RandInts,
           webhook \in SlackOutcomes \ {"ok"} :
           BookRide(name, phone, n, webhook) =>
              /\ ret' = Return(Text("Thank you, booking initiated", name, phone))
              /\ verify_otp(state', phone, str(n), now').ret = <<TRUE, name>>
      ]_vars

\* a booking whose notification failed is stored and acknowledged
C7_Witness ==
    /\ op = "book_ride"
    /\ args[4] \in SlackOutcomes \ {"ok"}
    /\ ret.kind = "return"
    /\ Live(state, args[2], now)
    /\ Get(state, args[2]).otp = args[3]

\* C8: every tool method returns text for every input and every collaborator
\* outcome; no exception of a service or serializer leaves a tool.
C8_ToolsReturnText ==
    op \in ToolNames \cup {"book_ride", "confirm_ride"} =>
        /\ ret.kind = "return"
        /\ Len(ret.value) = 3

\* a comparison whose service raised an exception other than NotFound
C8_Witness ==
    /\ op = "get_bike_comparison"
    /\ args[1] = "Exception"
    /\ ret = Return(Text("Error comparing bikes", "Exception", None))

----------------------------------------------------------------------------
(* Properties of FAQService.search *)

\* the row of the record with the given id
IndexOfId(id) == CHOOSE i \in 1..Len(faqs) : faqs[i].id = id

QuestionSimilarity(query, i) ==
    cosine_similarity(question_embeddings[i], Embedding[query])

AnswerSimilarity(query, i) ==
    cosine_similarity(answer_embeddings[i], Embedding[query])

\* m is the maximum of x and y
IsMaximum(m, x, y) == (Eq(m, x) \/ Eq(m, y)) /\ Ge(m, x) /\ Ge(m, y)

\* C9: for every query and every record i, the score search assigns to
\* record i is the maximum of the question similarity and the answer
\* similarity of record i.
C9_ScoreIsMaximum ==
    (op = "search" /\ ret.kind = "return") =>
        \A k \in 1..Len(ret.value) :
            LET i == IndexOfId(ret.value[k].id) IN
            IsMaximum(ret.value[k].score,
                      QuestionSimilarity(args[1], i), AnswerSimilarity(args[1], i))

\* the score search assigns to record i, returned or not
ScoreOf(query, i) ==
    MergedScore(cosine_similarity_batch(Embedding[query], question_embeddings),
                cosine_similarity_batch(Embedding[query], answer_embeddings), i)

\* C10: search(query, limit) returns at most limit results, in non-increasing
\* score order, and no record outside the result has a score strictly greater
\* than a returned one.
C10_TopLimitDescending ==
    (op = "search" /\ ret.kind = "return") =>
        LET results == ret.value
            returned == {IndexOfId(results[k].id) : k \in 1..Len(results)}
        IN  /\ Len(results) <= args[2]
            /\ \A k \in 1..(Len(results) - 1) : Ge(results[k].score, results[k + 1].score)
            /\ \A i \in (1..Len(faqs)) \ returned, k \in 1..Len(results) :
                  ~Gt(ScoreOf(args[1], i), results[k].score)

----------------------------------------------------------------------------
(* Properties of FAQService construction *)

\* C12: a construction that finds a cache file whose recorded records differ
\* from the records just loaded, in count, content or order, or that finds no
\* usable file, does not use the cached matrices: it computes both matrices
\* from the loaded records and rewrites the file from them.
C12_CacheUsedOnlyOnMatch ==
    [][(op' = "__init__" /\ ret'.kind = "return") =>
          LET made == _generate_and_cache_embeddings(faqs') IN
          (cache.kind # "json" \/ cache.metadata # faqs') =>
              /\ question_embeddings' = made.question_embeddings
              /\ answer_embeddings' = made.answer_embeddings
              /\ cache' = made.cache]_vars

\* C13: after a construction, by cache load or by generation, the records
\* have the ids "0".."n-1" in load order, each matrix has one row per record,
\* and row i is the embedding of the question, respectively the answer, of
\* the record with id str(i).
C13_RowsAlignedWithRecords ==
    (op = "__init__" /\ ret.kind = "return") =>
        /\ Len(question_embeddings) = Len(faqs)
        /\ Len(answer_embeddings) = Len(faqs)
        /\ \A i \in 1..Len(faqs) :
              /\ faqs[i].id = str(i - 1)
              /\ question_embeddings[i] = Embedding[faqs[i].question]
              /\ answer_embeddings[i] = Embedding[faqs[i].answer]

----------------------------------------------------------------------------
(* Properties of the similarity computation *)

Zero == [num |-> 0, den |-> 1]

ZeroNorm(v) == Dot(v, v) = 0

\* C14: in every result search returns, no score is nan, a record whose
\* similarities are all taken with a zero-norm vector (a zero-norm query, or
\* zero-norm question and answer rows) has score 0, and the results are in
\* non-increasing score order.
C14_ZeroNormScoresZero ==
    (op = "search" /\ ret.kind = "return") =>
        LET results == ret.value IN
        /\ \A k \in 1..Len(results) :
              LET i == IndexOfId(results[k].id) IN
              /\ ~IsNaN(results[k].score)
              /\ (\/ ZeroNorm(Embedding[args[1]])
                  \/ ZeroNorm(question_embeddings[i]) /\ ZeroNorm(answer_embeddings[i]))
                    => Eq(results[k].score, Zero)
        /\ \A k \in 1..(Len(results) - 1) : Ge(results[k].score, results[k + 1].score)

----------------------------------------------------------------------------
(* Properties of the Agent Loop *)

LastEmitted == emitted[Len(emitted)]

C16_TerminatesByCap ==
    /\ [](iterations <= MaxIterations)
    /\ <>(phase \in {"FINAL", "FAILED"})
    /\ [](phase = "AWAITING_MODEL" /\ iterations = MaxIterations =>
            <>(phase = "FINAL" /\ LastEmitted.final_message = <<CapMessage>>))

\* the model asked for tools on every call and the turn was closed at the cap
C16_Witness ==
    /\ phase = "FINAL"
    /\ iterations = MaxIterations
    /\ Len(steps) = MaxIterations
    /\ LastEmitted.final_message = <<CapMessage>>

\* the model turns that asked for tools, and the User messages that answer them
ToolTurns == SelectSeq(messages, LAMBDA m : m.role = "ai" /\ m.tool_call_requests # <<>>)

ToolMessages == SelectSeq(messages, LAMBDA m : m.role = "user" /\ m.tool_results # <<>>)

\* results answer requests position by position
Correlated(results, requests) ==
    /\ Len(results) = Len(requests)
    /\ \A k \in 1..Len(requests) :
          /\ results[k].id = requests[k].id
          /\ results[k].name = requests[k].name

\* C17: the results of every step are in the order of the requests of the
\* model turn that caused it, each carrying its request's id; the User message
\* appended for a finished step carries exactly the step's results, all
\* executed, in that order; and no request is handed to the registry twice,
\* whatever the order in which the tools finish.
C17_ResultsInRequestOrder ==
    /\ Len(steps) <= Len(ToolTurns)
    /\ (phase # "MODEL_RESPONDED") => Len(steps) = Len(ToolTurns)
    /\ \A j \in 1..Len(steps) : Correlated(steps[j].tool_results, ToolTurns[j].tool_call_requests)
    /\ \A j \in 1..Len(ToolMessages) :
          /\ ToolMessages[j].tool_results = steps[j].tool_results
          /\ \A k \in 1..Len(steps[j].tool_results) :
                /\ Executed(steps[j].tool_results[k])
                /\ steps[j].tool_results[k].id \in DOMAIN invoked
    /\ \A id \in DOMAIN invoked : invoked[id] = 1

\* a step of two calls was answered, and in the next step the second tool has
\* finished while the first has not
C17_Witness ==
    /\ phase = "EXECUTING_TOOLS"
    /\ Len(ToolMessages) = 1
    /\ Len(ToolMessages[1].tool_results) = 2
    /\ Len(steps[2].tool_results) = 2
    /\ Executed(steps[2].tool_results[2])
    /\ ~Executed(steps[2].tool_results[1])

\* C18: a call of a name that is not registered is answered by a FAILURE
\* result and never ends the turn by an exception: the turn fails only on a
\* model call; the other calls of the step are executed, registered tools with
\* SUCCESS, and a step under execution can always go on.
C18_UnknownToolIsFailure ==
    /\ \A j \in 1..Len(steps) : \A k \in 1..Len(steps[j].tool_results) :
          LET result == steps[j].tool_results[k] IN
          /\ (Executed(result) /\ result.name \notin RegisteredTools) => result.status = "FAILURE"
          /\ (Executed(result) /\ result.name \in RegisteredTools) => result.status = "SUCCESS"
          /\ (steps[j].status = "DONE") => Executed(result)
    /\ (phase = "FAILED") => messages[Len(messages)].role = "user"
    /\ (phase = "EXECUTING_TOOLS") => ENABLED (FinishStep \/ \E k \in 1..MaxCalls : ExecuteTool(k))

\* a finished step holds the failure of an unknown tool next to the success
\* of a registered one, and the loop went on to ask the model again
C18_Witness ==
    /\ phase = "MODEL_RESPONDED"
    /\ Len(steps) = 1
    /\ steps[1].status = "DONE"
    /\ Len(steps[1].tool_results) = 2
    /\ steps[1].tool_results[1].status = "FAILURE"
    /\ steps[1].tool_results[2].status = "SUCCESS"

\* what each filter asks of a car
SatisfiesFilter(car, name, v) ==
    CASE name = "min_price" -> v <= car.price
      [] name = "max_price" -> car.price <= v
      [] name = "brand" -> car.brand # <<>> /\ Lower[car.brand[1]] = Lower[v]
      [] name = "body_type" -> car.body_type # <<>> /\ Lower[car.body_type[1]] = Lower[v]
      [] name = "fuel_type" -> \E t \in car.fuel_types : Lower[t] = Lower[v]
      [] name = "transmission" -> \E t \in car.transmission : Lower[t] = Lower[v]
      [] name = "seating_capacity" -> car.seating_capacity = <<v>>
      [] name = "mileage_more_than" -> Mileage(car) # <<>> /\ Mileage(car)[1] > v
      [] name = "mileage_less_than" -> Mileage(car) # <<>> /\ Mileage(car)[1] < v
      [] name = "engine_displacement_more_than" -> \E x \in car.displacement : x > v
      [] name = "engine_displacement_less_than" -> \E x \in car.displacement : x < v

Satisfies(car, f) ==
    \A name \in FilterNames : f[name] # <<>> => SatisfiesFilter(car, name, f[name][1])

\* C19: every car returned by list_cars or search satisfies every supplied
\* filter, and a list_cars page from offset 0 that is long enough for all
\* the satisfying cars holds every one of them
C19_FiltersConjunctive ==
    (op \in {"list_cars", "search_cars"} /\ ret.kind = "return") =>
        LET f == args[3]
            sat == {i \in 1..Len(cars) : Satisfies(cars[i], f)}
            returned == {ret.value[k].id : k \in 1..Len(ret.value)}
        IN  /\ \A id \in returned : \E i \in sat : cars[i].id = id
            /\ (op = "list_cars" /\ args[2] = 0 /\ args[1] >= Cardinality(sat))
                   => \A i \in sat : cars[i].id \in returned

\* two filters at once keep one car of three, a mileage exactly at the bound
\* being left out
C19_Witness ==
    /\ op = "list_cars"
    /\ ret.kind = "return"
    /\ args[2] = 0
    /\ args[3].brand = Some("mahindra")
    /\ args[3].mileage_more_than = Some(20)
    /\ Len(cars) = 3
    /\ \E i \in 1..Len(cars) : Mileage(cars[i]) = Some(20)
    /\ Len(ret.value) = 1
    /\ ret.value[1].id = "mahindra_xuv_3xo"

\* the zero-based positions lo..hi-1 of a list
Window(s, lo, hi) ==
    LET from == Max({lo, 0})
        to == Min({hi, Len(s)})
    IN  IF from < to THEN SubSeq(s, from + 1, to) ELSE <<>>

\* C20: list_cars without sort_by returns the window [offset, offset+limit)
\* of the satisfying cars in ascending price, at most limit of them, and the
\* next page continues where this one ends
C20_DefaultWindowByPrice ==
    (op = "list_cars" /\ ret.kind = "return" /\ args[4] = <<>>) =>
        LET limit == args[1]
            offset == args[2]
            f == args[3]
            matching == SelectSeq(cars, LAMBDA c : Satisfies(c, f))
            ordered == StableSort(matching, {p \in Pairs(matching) : p[1].price < p[2].price})
            basic(s) == [i \in 1..Len(s) |-> get_basic_only(s[i])]
            next_page == CarService_list_cars(cars, limit, offset + limit, f, <<>>, "asc").value
        IN  /\ ret.value = basic(Window(ordered, offset, offset + limit))
            /\ Len(ret.value) <= limit
            /\ ret.value \o next_page = basic(Window(ordered, offset, offset + 2 * limit))

\* the filters whose value is none of the values of the loaded cars, letter
\* case aside
Available(cs, name) ==
    CASE name = "brand" -> available_brands(cs)
      [] name = "body_type" -> available_body_types(cs)
      [] name = "fuel_type" -> available_fuel_types(cs)
      [] name = "transmission" -> available_transmissions(cs)

Rejected(cs, f) ==
    {name \in {"brand", "body_type", "fuel_type", "transmission"} :
        /\ f[name] # <<>>
        /\ \A v \in Available(cs, name) : Lower[v] # Lower[f[name][1]]}

\* C21: list_cars and search given a brand, body_type, fuel_type or
\* transmission that matches no available value, letter case aside, raise
\* InvalidFilterError with the rejected field, the rejected value and
\* suggestions that are available values, and return nothing; when every
\* such value matches in some letter case, InvalidFilterError is not raised
C21_InvalidFilterRaises ==
    (op \in {"list_cars", "search_cars"}) =>
        LET f == args[3]
            e == ret.value
        IN  IF Rejected(cars, f) # {}
            THEN /\ ret.kind = "raise"
                 /\ e.class = "InvalidFilterError"
                 /\ e.filter_name \in Rejected(cars, f)
                 /\ e.invalid_value = f[e.filter_name][1]
                 /\ \A k \in 1..Len(e.suggestions) :
                        e.suggestions[k] \in Available(cars, e.filter_name)
            ELSE ~(ret.kind = "raise" /\ e.class = "InvalidFilterError")

\* a brand in another letter case is accepted while a second filter is
\* rejected with a suggestion
C21_Witness ==
    /\ op = "list_cars"
    /\ args[3].brand = Some("mahindra")
    /\ args[3].transmission = Some("CVT")
    /\ ret.kind = "raise"
    /\ ret.value.filter_name = "transmission"
    /\ ret.value.suggestions # <<>>

\* the loaded cars hold the id, letter case aside
Loaded(cs, car_id) == \E i \in 1..Len(cs) : cs[i].id = Lower[car_id]

\* every row has one entry per requested id, the entry of the k-th id being
\* the one that id gets when compared on its own
RowsFollowIds(cs, car_ids, result) ==
    /\ Len(result.cars) = Len(car_ids)
    /\ \A k \in 1..Len(car_ids) : result.cars[k].id = Lower[car_ids[k]]
    /\ \A r \in 1..Len(result.comparison_matrix) :
          LET row == result.comparison_matrix[r] IN
          /\ Len(row.entries) = Len(car_ids)
          /\ \A k \in 1..Len(car_ids) :
                LET alone == CarService_get_car_comparison(cs, <<car_ids[k]>>).value
                IN  row.entries[k] = alone.comparison_matrix[r].entries[1]

\* C22 (as stated): get_car_comparison raises CarNotFoundError if any id is
\* absent and otherwise returns a matrix whose rows have one entry per
\* requested id, in the order of the ids.
C22_AsStated ==
    (op = "get_car_comparison") =>
        LET car_ids == args[1] IN
        IF \E k \in 1..Len(car_ids) : ~Loaded(cars, car_ids[k])
        THEN ret.kind = "raise" /\ ret.value.class = "CarNotFoundError"
        ELSE ret.kind = "return" /\ RowsFollowIds(cars, car_ids, ret.value)

\* C22 (amended): get_car_comparison raises CarNotFoundError if any id is
\* absent, raises ValueError if no id is given, and otherwise returns a
\* matrix whose rows have one entry per requested id, in the order of the ids.
C22_ComparisonPerId ==
    (op = "get_car_comparison") =>
        LET car_ids == args[1] IN
        IF \E k \in 1..Len(car_ids) : ~Loaded(cars, car_ids[k])
        THEN ret.kind = "raise" /\ ret.value.class = "CarNotFoundError"
        ELSE IF car_ids = <<>>
        THEN ret.kind = "raise" /\ ret.value.class = "ValueError"
        ELSE ret.kind = "return" /\ RowsFollowIds(cars, car_ids, ret.value)

\* two different loaded cars were compared, the second asked for in capitals
C22_Witness ==
    /\ op = "get_car_comparison"
    /\ args[1] = <<"tata_punch_ev", "MARUTI_BREZZA">>
    /\ ret.kind = "return"
    /\ ret.value.comparison_matrix[2].entries = <<Some("Tata"), Some("Maruti Suzuki")>>

----------------------------------------------------------------------------
(* Properties of the booking tools *)

\* C23: the text book_ride returns is the one it returns for the same name
\* and phone number with any other generated code and any outcome of the
\* notification.
C23_ReplyHidesOtp ==
    [][ \A name \in Names, phone \in Phones, n \in RandInts, webhook \in SlackOutcomes :
           BookRide(name, phone, n, webhook) =>
              \A other \in RandInts, sent \in SlackOutcomes :
                 ret' = book_ride(state, name, phone, other, sent, now).ret
      ]_vars

\* a second booking of the same name and phone drew a different code and
\* got the reply of the first
C23_Witness ==
    /\ op = "book_ride"
    /\ args[3] = str(OtpHigh)
    /\ removed[args[2]] = <<"no", <<>>>>
    /\ Get(state, args[2]).otp = str(OtpHigh)
    /\ ret = book_ride(<<>>, args[1], args[2], OtpLow, "ok", 0).ret

\* C24: every code held in the session map of the booking flow is a string
\* of exactly six decimal digits.
C24_StoredOtpSixDigits ==
    \A i \in 1..Len(state) :
        /\ Len(state[i].otp) = 6
        /\ \A k \in 1..Len(state[i].otp) : state[i].otp[k] \in 0..9

\* both ends of the range of generated codes are held at once
C24_Witness ==
    /\ Len(state) = 2
    /\ state[1].otp = str(OtpLow)
    /\ state[2].otp = str(OtpHigh)

\* C25: with sessions for both phones, confirm_ride carrying the code of an
\* unexpired session of phone a (and not the internal code) returns the
\* confirmation for a, removes the session of a and leaves the session of
\* every other phone as it was.
C25_ConfirmNotBoundToPhone ==
    [][ \A c \in Codes, a \in Phones :
           ( /\ ConfirmRide(c)
             /\ Keys(state) = Phones
             /\ Get(state, a).otp = c
             /\ ~Expired(Get(state, a), ExpiryMinutes, now)
             /\ ~(secret_otp # <<>> /\ c = secret_otp) ) =>
              /\ ret' = Return(Text("Booking confirmed", Get(state, a).name, a))
              /\ a \notin Keys(state')
              /\ \A b \in Phones \ {a} :
                    b \in Keys(state') /\ Get(state', b) = Get(state, b)
      ]_vars

\* C26: whenever some unexpired session holds the code, confirm_ride does not
\* answer 'Invalid or expired OTP'.
C26_LiveOtpConfirms ==
    [][ \A c \in Codes :
           (ConfirmRide(c) /\ HeldLive(state, c, now)) =>
              /\ ret'.kind = "return"
              /\ ret'.value # InvalidOtpText
      ]_vars

\* C27: with INTERNAL_SECRET_OTP set, confirm_ride with that value returns
\* the internal confirmation and leaves the session map as it was.
C27_InternalOtpConfirms ==
    [][ \A c \in Codes :
           (ConfirmRide(c) /\ secret_otp # <<>> /\ c = secret_otp) =>
              /\ ret' = Return(Text("Booking confirmed with internal OTP", None, None))
              /\ state' = state
      ]_vars

\* the internal code was accepted while an unexpired session held the same
\* code, and the session is still there
C27_Witness ==
    /\ op = "confirm_ride"
    /\ secret_otp # <<>>
    /\ args[1] = secret_otp
    /\ ret = Return(Text("Booking confirmed with internal OTP", None, None))
    /\ HeldLive(state, secret_otp, now)

----------------------------------------------------------------------------
(* Properties of the sorted car list *)

\* the car has a value for the sort field
HasSortValue(car, field) ==
    CASE field = "price" -> TRUE
      [] field = "mileage" -> Mileage(car) # <<>>
      [] field = "seating_capacity" -> car.seating_capacity # <<>>
      [] field = "engine_displacement" -> car.displacement # {}

\* C30: in the result of list_cars with sort_by set, no car without a value
\* for the sort field comes before a car that has one, whatever sort_order.
C30_MissingSortValueLast ==
    (op = "list_cars" /\ ret.kind = "return" /\ args[4] # <<>>) =>
        LET has(k) == \E i \in 1..Len(cars) :
                          /\ cars[i].id = ret.value[k].id
                          /\ HasSortValue(cars[i], args[4][1])
        IN  \A j \in 1..Len(ret.value), k \in 1..Len(ret.value) :
                (j < k /\ has(k)) => has(j)

----------------------------------------------------------------------------
(* Properties of interleaved StateManager calls *)

\* C28: when two threads have each finished a verify_otp for the same phone
\* with the code of the session the phone had when one of them began, and that
\* session has not expired, one has returned (True, name), the other
\* (False, None), and neither has raised.
C28_OneVerifyWins ==
    \A t \in Threads : \A u \in Threads \ {t} :
        ( /\ threads[t].pc = "done" /\ threads[u].pc = "done"
          /\ threads[t].method = "verify_otp" /\ threads[u].method = "verify_otp"
          /\ threads[t].phone = threads[u].phone
          /\ threads[t].otp = threads[u].otp
          /\ threads[t].began # <<>>
          /\ threads[t].began[1].otp = threads[t].otp
          /\ ~Expired(threads[t].began[1], ExpiryMinutes, now)
          /\ \A w \in Threads : threads[w].method # "store_otp" ) =>
            /\ threads[t].outcome.kind = "return"
            /\ threads[u].outcome.kind = "return"
            /\ threads[t].outcome.value[1] # threads[u].outcome.value[1]
            /\ \A w \in {t, u} :
                  threads[w].outcome.value \in
                     {<<TRUE, threads[t].began[1].name>>, <<FALSE, None>>}

\* C29: a verify_otp statement that removes a session removes the one the
\* call read, which holds the call's code or has expired; a session stored
\* in between is not removed.
C29_VerifyRemovesOwnSession ==
    [][ \A t \in Threads :
           ((Line50(t) \/ Line56(t)) /\ state' # state) =>
              LET gone == Get(state, threads[t].phone) IN
              /\ gone = threads[t].stored[1]
              /\ gone.otp = threads[t].otp \/ Expired(gone, ExpiryMinutes, now)
      ]_vars

====
